---- MODULE Spec2Model ----
(***************************************************************************)
(* A model of subreddit-insights.                                          *)
(*                                                                         *)
(* src/reddit.ts, the Reddit API client: one fetchRedditData operation,    *)
(* cut at its await points, against a server that answers every request    *)
(* with any HTTP status, body or thrown error (specification Spec).        *)
(* Texts (error messages) are sequences of word tokens, so that "contains" *)
(* is a subsequence test.  Time is the number of milliseconds the          *)
(* operation has slept; network latency is taken as zero.                  *)
(*                                                                         *)
(* src/llm.ts, the analysis: chunkData (ChunkSpec), mergeAnalysisResults   *)
(* (MergeSpec), parseAnalysisResponse (ParseSpec) and analyzeWithLLM       *)
(* (AnalyzeSpec).  Each specification leaves the other parts idle.         *)
(***************************************************************************)
EXTENDS Integers, Sequences, FiniteSets, TLC

\* ------------------------------------------------------------- constants

USER_AGENT == "reddit-insights-cli/0.1.0"
BASE_URL == "https://www.reddit.com"
REQUEST_DELAY_MS == 1000
\* fetchWithRetry(url, retries = 3)
DefaultRetries == 3
\* response.headers.get('Retry-After') || '60'
DefaultRetryAfter == <<"6", "0">>
\* Math.min(100, ...): Reddit's page cap
PageCap == 100
\* the host the repository's tests and docs expect after a 403 with a token
OAUTH_URL == "https://oauth.reddit.com"

\* ---------------------------------------------------------------- bounds

\* children the server sends over all the listing pages of one operation
MaxServed == 2
\* answers other than 2xx, thrown calls included, per operation
MaxFaults == 3
\* Date.now() / 1000 at the start of the operation
NowSeconds == 20000000

\* ----------------------------------------------------------------- values

Null == "<null>"
NaN == -1

Periods == {<<"7", "d">>, <<"3", "0", "d">>, <<"9", "0", "d">>, <<"1", "8", "0", "d">>}
Limits == {1, PageCap + 1}
\* setTokenProvider(null | () => null | () => token), as the tests configure it
TokenProviders == {"unset", "returns_null", "returns_token"}
PostIds == {"p1", "p2"}

Min(a, b) == IF a < b THEN a ELSE b
Max(a, b) == IF a > b THEN a ELSE b

\* text.includes(sub) on token sequences
Contains(text, sub) ==
    \E i \in 1..(Len(text) - Len(sub) + 1) : SubSeq(text, i, i + Len(sub) - 1) = sub

\* a falsy string | null of the source
Falsy(s) == s = Null \/ s = ""

Digits == {"0", "1", "2", "3", "4", "5", "6", "7", "8", "9"}

DigitValue(c) ==
    CASE c = "0" -> 0 [] c = "1" -> 1 [] c = "2" -> 2 [] c = "3" -> 3 [] c = "4" -> 4
      [] c = "5" -> 5 [] c = "6" -> 6 [] c = "7" -> 7 [] c = "8" -> 8 [] c = "9" -> 9

\* str.replace(ch, ''): the first occurrence of ch removed
RECURSIVE ReplaceFirst(_, _)
ReplaceFirst(s, ch) ==
    IF s = <<>> THEN <<>>
    ELSE IF Head(s) = ch THEN Tail(s)
    ELSE <<Head(s)>> \o ReplaceFirst(Tail(s), ch)

RECURSIVE ParseDigits(_, _)
ParseDigits(s, acc) ==
    IF s = <<>> \/ Head(s) \notin Digits THEN acc
    ELSE ParseDigits(Tail(s), 10 * acc + DigitValue(Head(s)))

\* parseInt(s, 10): the value of the leading digits, NaN when there are none
ParseInt(s) ==
    IF s = <<>> \/ Head(s) \notin Digits THEN NaN ELSE ParseDigits(s, 0)

periodToTimeFilter(p) ==
    CASE p = <<"7", "d">> -> "week"
      [] p = <<"3", "0", "d">> -> "month"
      [] p = <<"9", "0", "d">> -> "year"
      [] p = <<"1", "8", "0", "d">> -> "year"
      [] OTHER -> "month"

getPeriodCutoff(p, nowSec) ==
    LET days == ParseInt(ReplaceFirst(p, "d"))
    IN  nowSec - days * 24 * 60 * 60

\* what setTimeout does with the milliseconds it is given
delay(ms) == Max(0, ms)

parsePost(data) == [id |-> data.id, createdUtc |-> data.created_utc]

\* parseComment: the comment with its 't1' replies, parsed recursively
RECURSIVE parseComment(_, _)
RECURSIVE parseCommentChildren(_, _)
parseCommentChildren(children, postId) ==
    IF children = <<>> THEN <<>>
    ELSE LET child == Head(children)
             rest == parseCommentChildren(Tail(children), postId)
         IN  IF child.kind = "t1" THEN <<parseComment(child, postId)>> \o rest ELSE rest

parseComment(data, postId) ==
    [id |-> data.id, postId |-> postId,
     replies |-> parseCommentChildren(data.replies, postId)]

\* ------------------------------------------------------------ the server

\* the period's length in days, as the interface documents it
PeriodDays(p) ==
    CASE p = <<"7", "d">> -> 7
      [] p = <<"3", "0", "d">> -> 30
      [] p = <<"9", "0", "d">> -> 90
      [] p = <<"1", "8", "0", "d">> -> 180

\* creation times on both sides of the period's boundary
CreatedUtcs(p) ==
    {NowSeconds - PeriodDays(p) * 86400 - 1, NowSeconds - PeriodDays(p) * 86400}

ListingChildren(p) ==
    [kind : {"t3"}, id : PostIds, created_utc : CreatedUtcs(p)]
        \cup {[kind |-> "more", id |-> "m1", created_utc |-> NowSeconds]}

SeqsUpTo(S, n) == UNION {[1..k -> S] : k \in 0..n}

Cursors == {Null, "", "t3_next"}

\* the pages a server with `room` children left may send: a cursor comes only with a
\* page that leaves it something to send; the first child of the operation, when a
\* post, is named p1 (the client only ever compares ids), later ones repeat an id or
\* bring a new one
ListingBodies(p, room) ==
    {b \in [children : SeqsUpTo(ListingChildren(p), room), after : Cursors] :
        /\ Falsy(b.after) \/ Len(b.children) < room
        /\ \A k \in DOMAIN b.children :
              (MaxServed - room + k = 1 /\ b.children[k].kind = "t3") =>
                  b.children[k].id = "p1"}

RawReply == [kind |-> "t1", id |-> "c2", replies |-> <<>>]
RawComment == [kind |-> "t1", id |-> "c1", replies |-> <<RawReply>>]
RawMore == [kind |-> "more", id |-> "m1", replies |-> <<>>]

\* the JSON array of a comments answer: [postListing] or [postListing, commentListing]
CommentBodies ==
    {<<[children |-> <<>>]>>,
     <<[children |-> <<>>], [children |-> <<RawComment, RawMore>>]>>}

\* error.message of the n-th fault of the operation
ThrownMessage(n) == <<"Network", "error", ToString(n)>>

NoBody == <<>>
\* headers.get('Retry-After') of an answer without the header
NoHeader == <<>>

Answer(type, status, statusText, retryAfter, body, message) ==
    [type |-> type, status |-> status, statusText |-> statusText,
     retryAfter |-> retryAfter, body |-> body, message |-> message]

OkAnswers(bodies) ==
    {Answer("response", 200, <<"OK">>, NoHeader, b, <<>>) : b \in bodies}

\* the Retry-After header of the n-th fault: none on the first, n seconds after it
RetryAfterHeader(n) == IF n = 1 THEN NoHeader ELSE <<ToString(n)>>

FaultAnswers(n) ==
    {Answer("response", 429, <<"Too", "Many", "Requests">>, RetryAfterHeader(n), NoBody,
            <<>>),
     Answer("response", 403, <<"Forbidden">>, NoHeader, NoBody, <<>>),
     Answer("response", 404, <<"Not", "Found">>, NoHeader, NoBody, <<>>),
     Answer("response", 500, <<"Internal", "Server", "Error">>, NoHeader, NoBody, <<>>)}
    \cup {Answer("throw", 0, <<>>, NoHeader, NoBody, ThrownMessage(n))}

\* -------------------------------------------------------------- the state

VARIABLES
    period,         \* options.period
    limit,          \* options.limit
    tokenProvider,  \* what setTokenProvider was given before the operation
    pc,             \* where the operation stands
    cutoff,         \* fetchPosts: cutoff
    posts,          \* fetchPosts: posts
    after,          \* fetchPosts: after
    url,            \* fetchWithRetry: url
    attempt,        \* fetchWithRetry: attempt
    lastError,      \* fetchWithRetry: lastError
    fwrResult,      \* what fetchWithRetry returned to its caller
    postsResult,    \* fetchRedditData: postsResult.posts
    idx,            \* fetchRedditData: position of the for loop in postsResult.posts
    comments,       \* fetchRedditData: comments
    fetchedCount,   \* fetchRedditData: fetchedCount
    result,         \* what fetchRedditData resolved to
    sinceLast,      \* milliseconds slept since the last request was issued
    http,           \* the requests of the running fetchWithRetry call, with their answers
    wire,           \* what the network saw of the whole operation so far
    faults,         \* answers other than 2xx so far
    served          \* listing children sent so far

\* src/llm.ts
VARIABLES
    redditData,     \* chunkData, analyzeWithLLM: data
    chunks,         \* what chunkData returned
    results,        \* mergeAnalysisResults, analyzeWithLLM: results
    merged,         \* what mergeAnalysisResults returned
    response,       \* parseAnalysisResponse: response
    jsonText,       \* the JSON text the model wrote into the response
    fenceTag,       \* how the model fenced it
    parsed,         \* what parseAnalysisResponse returned or threw
    apiKey,         \* analyzeWithLLM: process.env.ANTHROPIC_API_KEY
    chunkIndex,     \* analyzeWithLLM: i
    requests,       \* the requests sent to the model, in order: chunk index and prompt
    replies,        \* what the model answered, in order
    analyzeResult,  \* what analyzeWithLLM returned
    fullText,       \* what dataToText returned: the lines of the text
    llmPc           \* where the analysis stands

redditVars == <<period, limit, tokenProvider, pc, cutoff, posts, after, url, attempt,
          lastError, fwrResult, postsResult, idx, comments, fetchedCount, result,
          sinceLast, http, wire, faults, served>>

analyzeVars == <<apiKey, chunkIndex, requests, replies, analyzeResult, fullText>>

llmVars == <<redditData, chunks, results, merged, response, jsonText, fenceTag, parsed,
             analyzeVars, llmPc>>

\* src/app-only-auth.ts
VARIABLES
    clock,          \* Date.now()
    manager,        \* the AppOnlyTokenManager: token, clientId, clientSecret
    ops,            \* the calls made so far, in order, with what they saw and returned
    configFile      \* src/src/config.ts: ~/.config/subreddit-insights/config.json

authVars == <<clock, manager, ops, configFile>>

\* src/reddit-auth.ts startCallbackServer and the POST /api/analyze handler
VARIABLES
    callbackServer, \* the callback server of one startCallbackServer call, its timer
                    \* and the promise the call returned
    apiServer       \* one POST /api/analyze request, from its arrival to its answer

serverVars == <<callbackServer, apiServer>>

vars == <<redditVars, llmVars, authVars, serverVars>>

\* this.token = null
NoToken == [none |-> TRUE]

\* fs.existsSync(configPath) is false
NoFile == [file |-> "none"]

\* no manager in use
ManagerIdle == manager = [token |-> NoToken, clientId |-> "", clientSecret |-> ""]

\* a request of the callback server: the path and the query parameters of req.url, as
\* url.searchParams.get gives them (null for a parameter the query does not carry)
NoRequest == [path |-> Null, error |-> Null, code |-> Null, state |-> Null]

\* an event of the callback server: a request, the timer or a server error; `late`
\* tells that resolved was already set when the event was handled, `status` is the
\* HTTP status answered (0: no answer written)
NoEvent == [kind |-> "none", request |-> NoRequest, late |-> FALSE, status |-> 0]

\* startCallbackServer was not called
CallbackServerIdle ==
    callbackServer = [expectedState |-> "", elapsed |-> 0, resolved |-> FALSE,
                      timer |-> "none", server |-> "none", resolveCalls |-> <<>>,
                      decidedBy |-> NoEvent, last |-> NoEvent]

\* no request at the API server
ApiServerIdle ==
    apiServer = [body |-> [kind |-> "none"], envKey |-> "", pc |-> "idle",
                 fetchCalls |-> <<>>, analyzeCalls |-> 0, status |-> 0, error |-> ""]

ServersIdle == CallbackServerIdle /\ ApiServerIdle

\* no manager in use, no credential stored, no server running
AuthIdle ==
    /\ clock = 0
    /\ ManagerIdle
    /\ ops = <<>>
    /\ configFile = NoFile
    /\ ServersIdle

NoUrl == [host |-> Null, kind |-> Null, t |-> Null, limit |-> 0, after |-> Null,
          postId |-> Null]
NoResult == [success |-> FALSE, data |-> <<>>, error |-> <<>>]
Pending == [success |-> FALSE, error |-> <<>>, posts |-> <<>>, comments |-> <<>>]

\* nothing sent yet
NoWire ==
    [requests |-> 0,        \* requests issued
     listing |-> 0,         \* listing requests issued
     fetched |-> <<>>,      \* the post ids whose comments were requested, per call
     forbidden |-> {},      \* the kinds of request to the anonymous host answered 403
     notFound |-> {},       \* the kinds of request answered 404
     oauth |-> FALSE,       \* a request went to the authenticated host
     last |-> <<>>,         \* the latest request, with its answer
     cursor |-> Null,       \* the cursor of the latest listing page
     closedAt |-> 0,        \* the listing requests issued when a listing page first
                            \* had an empty cursor or no children (0: none had)
     empty |-> FALSE]       \* a listing page had no children

\* no corpus in hand, no analysis running
NoData == [subreddit |-> "", posts |-> <<>>, comments |-> <<>>]

\* getEmptyAnalysis()
NoAnalysis ==
    [pains |-> <<>>, patterns |-> <<>>, quotes |-> <<>>,
     userLanguage |-> [commonTerms |-> <<>>, tone |-> "unknown",
                       emotionalPatterns |-> <<>>],
     hypotheses |-> <<>>]

\* nothing to parse, nothing parsed
ParseIdle ==
    /\ response = <<>>
    /\ jsonText = <<>>
    /\ fenceTag = "none"
    /\ parsed = [threw |-> "", analysis |-> NoAnalysis]

\* analyzeWithLLM has not returned
NotReturned == [success |-> FALSE, error |-> <<>>]

\* no analysis asked for
AnalyzeIdle ==
    /\ apiKey = ""
    /\ chunkIndex = 0
    /\ requests = <<>>
    /\ replies = <<>>
    /\ analyzeResult = NotReturned
    /\ fullText = <<>>

LlmIdle ==
    /\ redditData = NoData
    /\ chunks = <<>>
    /\ results = <<>>
    /\ merged = NoAnalysis
    /\ ParseIdle
    /\ AnalyzeIdle
    /\ llmPc = "idle"

\* no fetch running
RedditIdle ==
    /\ period = <<"7", "d">>
    /\ limit = 1
    /\ tokenProvider = "unset"
    /\ pc = "idle"
    /\ cutoff = 0
    /\ posts = <<>>
    /\ after = Null
    /\ url = NoUrl
    /\ attempt = 0
    /\ lastError = <<>>
    /\ fwrResult = NoResult
    /\ postsResult = <<>>
    /\ idx = 1
    /\ comments = <<>>
    /\ fetchedCount = 0
    /\ result = Pending
    /\ sinceLast = 0
    /\ http = <<>>
    /\ wire = NoWire
    /\ faults = 0
    /\ served = 0

Init ==
    /\ period \in Periods
    /\ limit \in Limits
    /\ tokenProvider \in TokenProviders
    /\ pc = "start"
    /\ cutoff = 0
    /\ posts = <<>>
    /\ after = Null
    /\ url = NoUrl
    /\ attempt = 0
    /\ lastError = <<>>
    /\ fwrResult = NoResult
    /\ postsResult = <<>>
    /\ idx = 1
    /\ comments = <<>>
    /\ fetchedCount = 0
    /\ result = Pending
    /\ sinceLast = 0
    /\ http = <<>>
    /\ wire = NoWire
    /\ faults = 0
    /\ served = 0
    /\ LlmIdle
    /\ AuthIdle

\* ----------------------------------------------------------- fetchWithRetry

ForbiddenErrorReworded == <<"Access", "forbidden", ".">>

ForbiddenError ==
    <<"Access", "forbidden", ".", "The", "subreddit", "may", "be", "private", "or",
      "banned", ".">>
NotFoundError == <<"Subreddit", "not", "found", ".">>
\* `HTTP ${response.status}: ${response.statusText}`
HttpError(status, statusText) == <<"HTTP", ToString(status), ":">> \o statusText
\* `Failed after ${retries} attempts: ${lastError}`
FailedAfter(retries, cause) ==
    <<"Failed", "after", ToString(retries), "attempts", ":">> \o cause

Success(data) == [success |-> TRUE, data |-> data, error |-> <<>>]
Failure(error) == [success |-> FALSE, data |-> <<>>, error |-> error]

\* the header value the 429 branch parses
RetryAfterSeconds(header) ==
    ParseInt(IF header = NoHeader THEN DefaultRetryAfter ELSE header)

\* fetch(url, {headers: {'User-Agent': USER_AGENT}})
RequestHeaders(u) == {<<"User-Agent", USER_AGENT>>}

\* the answers the server may give to the request in flight
Answers ==
    (IF url.kind = "listing"
        THEN OkAnswers(ListingBodies(period, MaxServed - served))
        ELSE OkAnswers(CommentBodies))
    \cup (IF faults < MaxFaults THEN FaultAnswers(faults + 1) ELSE {})

\* response.ok
ResponseOk(a) == a.status >= 200 /\ a.status <= 299

\* the request as the network sees it
Sent(u, headers, gap, seq) ==
    [url |-> u, headers |-> headers, gap |-> gap, seq |-> seq, answer |-> "pending",
     message |-> <<>>, retryAfter |-> NoHeader]

\* the for loop's head: one more attempt, or the budget is spent
FetchWithRetryAttempt ==
    /\ pc = "attempt"
    /\ IF attempt < DefaultRetries
          THEN /\ http' = Append(http, Sent(url, RequestHeaders(url), sinceLast,
                                            wire.requests + 1))
               /\ wire' = [wire EXCEPT
                    !.requests = @ + 1,
                    !.listing = IF url.kind = "listing" THEN @ + 1 ELSE @,
                    !.oauth = @ \/ url.host = OAUTH_URL,
                    !.last = <<Sent(url, RequestHeaders(url), sinceLast,
                                    wire.requests + 1)>>]
               /\ sinceLast' = 0
               /\ pc' = "await"
               /\ UNCHANGED <<fwrResult, attempt, lastError>>
          ELSE /\ fwrResult' = Failure(FailedAfter(DefaultRetries, lastError))
               /\ attempt' = 0
               /\ lastError' = <<>>
               /\ pc' = "return"
               /\ UNCHANGED <<http, wire, sinceLast>>
    /\ UNCHANGED <<period, limit, tokenProvider, cutoff, posts, after, url,
                   postsResult, idx, comments, fetchedCount, result, faults, served>>
    /\ UNCHANGED <<llmVars, authVars, serverVars>>

BackoffFlat(n) == REQUEST_DELAY_MS

\* REQUEST_DELAY_MS * (attempt + 1): the wait before the retry of a thrown attempt
Backoff(n) == REQUEST_DELAY_MS * (n + 1)

\* the loop body with a 404 taken for any other failed status
FetchWithRetryBodyRetrying404(a) ==
    CASE a.type = "throw" ->
            [ret |-> FALSE, result |-> NoResult, lastError |-> a.message,
             sleep |-> IF attempt < DefaultRetries - 1
                          THEN delay(Backoff(attempt)) ELSE 0]
      [] a.type = "response" /\ a.status = 429 ->
            [ret |-> FALSE, result |-> NoResult, lastError |-> lastError,
             sleep |-> delay(RetryAfterSeconds(a.retryAfter) * 1000)]
      [] a.type = "response" /\ a.status = 403 ->
            [ret |-> TRUE, result |-> Failure(ForbiddenError), lastError |-> lastError,
             sleep |-> 0]
      [] a.type = "response" /\ a.status \notin {429, 403} /\ ~ResponseOk(a) ->
            [ret |-> FALSE, result |-> NoResult,
             lastError |-> HttpError(a.status, a.statusText), sleep |-> 0]
      [] OTHER ->
            [ret |-> TRUE, result |-> Success(a.body), lastError |-> lastError,
             sleep |-> 0]

\* what the loop body does with the answer a
FetchWithRetryBody(a) ==
    CASE a.type = "throw" ->
            [ret |-> FALSE, result |-> NoResult, lastError |-> a.message,
             sleep |-> IF attempt < DefaultRetries - 1
                          THEN delay(Backoff(attempt)) ELSE 0]
      [] a.type = "response" /\ a.status = 429 ->
            [ret |-> FALSE, result |-> NoResult, lastError |-> lastError,
             sleep |-> delay(RetryAfterSeconds(a.retryAfter) * 1000)]
      [] a.type = "response" /\ a.status = 403 ->
            [ret |-> TRUE, result |-> Failure(ForbiddenError), lastError |-> lastError,
             sleep |-> 0]
      [] a.type = "response" /\ a.status = 404 ->
            [ret |-> TRUE, result |-> Failure(NotFoundError), lastError |-> lastError,
             sleep |-> 0]
      [] a.type = "response" /\ a.status \notin {429, 403, 404} /\ ~ResponseOk(a) ->
            [ret |-> FALSE, result |-> NoResult,
             lastError |-> HttpError(a.status, a.statusText), sleep |-> 0]
      [] OTHER ->
            [ret |-> TRUE, result |-> Success(a.body), lastError |-> lastError,
             sleep |-> 0]

AnswerName(a) == IF a.type = "throw" THEN "throw" ELSE ToString(a.status)

\* the awaited fetch settles: the rest of the loop body
FetchWithRetryAnswer ==
    /\ pc = "await"
    /\ \E a \in Answers :
        LET step == FetchWithRetryBody(a)
            listed == AnswerName(a) = "200" /\ url.kind = "listing"
        IN  /\ http' = [http EXCEPT ![Len(http)].answer = AnswerName(a),
                                    ![Len(http)].message = a.message,
                                    ![Len(http)].retryAfter = a.retryAfter]
            /\ wire' = [wire EXCEPT
                    !.last = <<[@[1] EXCEPT !.answer = AnswerName(a),
                                           !.message = a.message,
                                           !.retryAfter = a.retryAfter]>>,
                    !.forbidden = IF AnswerName(a) = "403" /\ url.host = BASE_URL
                                     THEN @ \cup {url.kind} ELSE @,
                    !.notFound = IF AnswerName(a) = "404"
                                    THEN @ \cup {url.kind} ELSE @,
                    !.cursor = IF listed THEN a.body.after ELSE @,
                    !.closedAt = IF @ = 0 /\ listed /\ (Falsy(a.body.after)
                                                         \/ a.body.children = <<>>)
                                    THEN wire.listing ELSE @,
                    !.empty = @ \/ (listed /\ a.body.children = <<>>)]
            /\ faults' = IF AnswerName(a) = "200" THEN faults ELSE faults + 1
            /\ served' = IF listed THEN served + Len(a.body.children) ELSE served
            /\ sinceLast' = sinceLast + step.sleep
            /\ IF step.ret
                  THEN /\ fwrResult' = step.result
                       /\ attempt' = 0
                       /\ lastError' = <<>>
                       /\ pc' = "return"
                  ELSE /\ fwrResult' = fwrResult
                       /\ attempt' = attempt + 1
                       /\ lastError' = step.lastError
                       /\ pc' = "attempt"
    /\ UNCHANGED <<period, limit, tokenProvider, cutoff, posts, after, url,
                   postsResult, idx, comments, fetchedCount, result>>
    /\ UNCHANGED <<llmVars, authVars, serverVars>>

\* --------------------------------------------------------------- fetchPosts

\* the for loop over children: the 't3' children not older than the cutoff
RECURSIVE KeptPosts(_, _)
KeptPosts(children, cut) ==
    IF children = <<>> THEN <<>>
    ELSE LET child == Head(children)
             rest == KeptPosts(Tail(children), cut)
         IN  IF child.kind = "t3" /\ child.created_utc >= cut
                THEN <<parsePost(child)>> \o rest ELSE rest

BatchSizeUncapped(collected) == limit - collected

\* Math.min(100, options.limit - posts.length)
BatchSize(collected) == Min(PageCap, limit - collected)

\* `${BASE_URL}/r/${subreddit}/top.json?t=${timeFilter}&limit=${batchSize}[&after=${after}]`
ListingUrl(collected, cursor) ==
    [host |-> BASE_URL, kind |-> "listing", t |-> periodToTimeFilter(period),
     limit |-> BatchSize(collected),
     after |-> IF Falsy(cursor) THEN Null ELSE cursor, postId |-> Null]

\* `${BASE_URL}/r/${subreddit}/comments/${postId}.json?limit=100&depth=3`
CommentsUrl(postId) ==
    [host |-> BASE_URL, kind |-> "comments", t |-> Null, limit |-> 100, after |-> Null,
     postId |-> postId]

SlicePostsAll(ps) == ps

\* posts.slice(0, options.limit)
SlicePosts(ps) == SubSeq(ps, 1, Min(limit, Len(ps)))

\* fetchRedditData starts fetchPosts, which runs to the head of its while loop
FetchRedditData ==
    /\ pc = "start"
    /\ cutoff' = getPeriodCutoff(period, NowSeconds)
    /\ posts' = <<>>
    /\ after' = Null
    /\ pc' = "posts_loop"
    /\ UNCHANGED <<period, limit, tokenProvider, url, attempt, lastError, fwrResult,
                   postsResult, idx, comments, fetchedCount, result, sinceLast, http,
                   wire, faults, served>>
    /\ UNCHANGED <<llmVars, authVars, serverVars>>

FetchPostsReturnFromSecond(ps) ==
    /\ postsResult' = SlicePosts(ps)
    /\ posts' = <<>>
    /\ after' = Null
    /\ idx' = 2
    /\ comments' = <<>>
    /\ fetchedCount' = 0
    /\ pc' = "comments_loop"

\* fetchPosts returns its posts and fetchRedditData enters its for loop
FetchPostsReturn(ps) ==
    /\ postsResult' = SlicePosts(ps)
    /\ posts' = <<>>
    /\ after' = Null
    /\ idx' = 1
    /\ comments' = <<>>
    /\ fetchedCount' = 0
    /\ pc' = "comments_loop"

\* the head of the while loop: one more page, or enough posts
FetchPostsLoop ==
    /\ pc = "posts_loop"
    /\ IF Len(posts) < limit
          THEN /\ url' = ListingUrl(Len(posts), after)
               /\ attempt' = 0
               /\ lastError' = <<>>
               /\ pc' = "attempt"
               /\ UNCHANGED <<posts, after, postsResult, idx, comments, fetchedCount>>
          ELSE /\ FetchPostsReturn(posts)
               /\ UNCHANGED <<url, attempt, lastError>>
    /\ UNCHANGED <<period, limit, tokenProvider, cutoff, fwrResult, result, sinceLast,
                   http, wire, faults, served>>
    /\ UNCHANGED <<llmVars, authVars, serverVars>>

\* fetchWithRetry returned to fetchPosts: the rest of the while loop's body
FetchPostsResume ==
    /\ pc = "return"
    /\ url.kind = "listing"
    /\ url' = NoUrl
    /\ fwrResult' = NoResult
    /\ IF ~fwrResult.success
          THEN /\ result' = [success |-> FALSE, error |-> fwrResult.error,
                             posts |-> <<>>, comments |-> <<>>]
               /\ pc' = "done"
               /\ posts' = <<>>
               /\ after' = Null
               /\ UNCHANGED <<postsResult, idx, comments, fetchedCount, sinceLast>>
          ELSE LET data == fwrResult.data
                   collected == posts \o KeptPosts(data.children, cutoff)
               IN  /\ result' = result
                   /\ IF data.children = <<>>
                         THEN /\ FetchPostsReturn(posts)
                              /\ sinceLast' = sinceLast
                         ELSE IF Falsy(data.after)
                         THEN /\ FetchPostsReturn(collected)
                              /\ sinceLast' = sinceLast
                         ELSE /\ posts' = collected
                              /\ after' = data.after
                              /\ sinceLast' = sinceLast + delay(REQUEST_DELAY_MS)
                              /\ pc' = "posts_loop"
                              /\ UNCHANGED <<postsResult, idx, comments, fetchedCount>>
    /\ http' = <<>>
    /\ UNCHANGED <<period, limit, tokenProvider, cutoff, attempt, lastError, wire,
                   faults, served>>
    /\ UNCHANGED <<llmVars, authVars, serverVars>>

\* ---------------------------------------------------------- fetchRedditData

MapSetFresh(map, key, value) == [k \in {key} |-> value]

\* comments.set(key, value)
MapSet(map, key, value) ==
    [k \in (DOMAIN map) \cup {key} |-> IF k = key THEN value ELSE map[k]]

\* fetchPostComments after its fetchWithRetry: the 't1' children of the second listing
PostComments(fetched, postId) ==
    IF ~fetched.success THEN [success |-> FALSE, comments |-> <<>>]
    ELSE [success |-> TRUE,
          comments |-> IF Len(fetched.data) >= 2
                          THEN parseCommentChildren(fetched.data[2].children, postId)
                          ELSE <<>>]

StoreCommentsSkippingFailed(map, postId, commentsResult) ==
    IF commentsResult.success
       THEN MapSet(map, postId, commentsResult.comments)
       ELSE map

\* the for loop's if: the post's comments, or no comments when their fetch failed
StoreComments(map, postId, commentsResult) ==
    IF commentsResult.success
       THEN MapSet(map, postId, commentsResult.comments)
       ELSE MapSet(map, postId, <<>>)

\* the head of the for loop over the posts: the next post's comments, or done
FetchCommentsLoop ==
    /\ pc = "comments_loop"
    /\ IF idx <= Len(postsResult)
          THEN /\ url' = CommentsUrl(postsResult[idx].id)
               /\ attempt' = 0
               /\ lastError' = <<>>
               /\ wire' = [wire EXCEPT !.fetched = Append(@, postsResult[idx].id)]
               /\ pc' = "attempt"
               /\ UNCHANGED <<result, postsResult, idx, comments, fetchedCount>>
          ELSE /\ result' = [success |-> TRUE, error |-> <<>>, posts |-> postsResult,
                             comments |-> comments]
               /\ pc' = "done"
               /\ postsResult' = <<>>
               /\ idx' = 1
               /\ comments' = <<>>
               /\ fetchedCount' = 0
               /\ UNCHANGED <<url, attempt, lastError, wire>>
    /\ UNCHANGED <<period, limit, tokenProvider, cutoff, posts, after, fwrResult,
                   sinceLast, http, faults, served>>
    /\ UNCHANGED <<llmVars, authVars, serverVars>>

\* fetchPostComments returned: the rest of the for loop's body
FetchPostCommentsResume ==
    /\ pc = "return"
    /\ url.kind = "comments"
    /\ LET post == postsResult[idx]
       IN  comments' = StoreComments(comments, post.id,
                                     PostComments(fwrResult, post.id))
    /\ fetchedCount' = fetchedCount + 1
    /\ sinceLast' = sinceLast + delay(REQUEST_DELAY_MS)
    /\ idx' = idx + 1
    /\ url' = NoUrl
    /\ fwrResult' = NoResult
    /\ pc' = "comments_loop"
    /\ http' = <<>>
    /\ UNCHANGED <<period, limit, tokenProvider, cutoff, posts, after, attempt,
                   lastError, postsResult, result, wire, faults, served>>
    /\ UNCHANGED <<llmVars, authVars, serverVars>>

Next ==
    \/ FetchRedditData
    \/ FetchPostsLoop
    \/ FetchWithRetryAttempt
    \/ FetchWithRetryAnswer
    \/ FetchPostsResume
    \/ FetchCommentsLoop
    \/ FetchPostCommentsResume

Spec == Init /\ [][Next]_vars

\* ----------------------------------------------------------------- claims

Done == pc = "done"
Requested == wire.last # <<>>
\* the latest request of the operation, with the answer it got
LastSent == wire.last[1]
Returned == pc = "return"
AllAnswered(log, names) == \A i \in DOMAIN log : log[i].answer \in names
PostIdsOf(ps) == {ps[i].id : i \in DOMAIN ps}
\* the header the tests expect on a request to the authenticated host
BearerHeader == <<"Authorization", "Bearer test-access-token">>
\* the cutoff of the requested period
PeriodCutoff == NowSeconds - PeriodDays(period) * 86400

\* the seconds a Retry-After header asks for, 60 without the header
HeaderSeconds(h) == IF h = <<>> THEN 60 ELSE CHOOSE n \in 0..9 : h = <<ToString(n)>>

\* C1: with a token provider that returns a token, an anonymous request answered
\* 403 is re-issued against the authenticated host with the bearer header, and no
\* later request of the operation goes to the anonymous host.
C1_StickyOAuthFallback ==
    (tokenProvider = "returns_token" /\ wire.forbidden # {}) =>
        /\ Done => wire.oauth
        /\ LastSent.url.host = BASE_URL => LastSent.answer = "403"
        /\ LastSent.url.host = OAUTH_URL => BearerHeader \in LastSent.headers

\* C2 as stated: without a token, any anonymous request answered 403 ends the
\* operation with a failure containing 'private or banned', nothing being sent
\* after it.
C2_AnyForbiddenEndsOperation ==
    (tokenProvider # "returns_token" /\ wire.forbidden # {}) =>
        /\ LastSent.answer = "403"
        /\ Done => /\ ~result.success
                   /\ Contains(result.error, <<"private", "or", "banned">>)

\* C2 amended: without a token, a listing request answered 403 ends the operation
\* with a failure containing 'private or banned'; the 403 is not retried and
\* nothing is sent after it.
C2_ListingForbiddenEndsOperation ==
    (tokenProvider # "returns_token" /\ "listing" \in wire.forbidden) =>
        /\ LastSent.url.kind = "listing"
        /\ LastSent.answer = "403"
        /\ pc \in {"return", "done"}
        /\ Done => /\ ~result.success
                   /\ Contains(result.error, <<"private", "or", "banned">>)

C2_Witness ==
    /\ Done
    /\ tokenProvider = "returns_null"
    /\ "listing" \in wire.forbidden
    /\ result.error = ForbiddenError

\* C3: a 429 is followed, after the Retry-After seconds (60 without the header), by
\* a retry of the same URL, and 429 answers do not use up the retry budget: a call
\* answered by 429s alone never returns a failure.
C3_RateLimitNeverFails ==
    /\ \A i \in DOMAIN http :
          (http[i].answer = "429" /\ i < Len(http)) =>
              /\ http[i + 1].url = http[i].url
              /\ http[i + 1].gap = 1000 * HeaderSeconds(http[i].retryAfter)
    /\ (Returned /\ ~fwrResult.success) => ~AllAnswered(http, {"429"})

\* C4: a thrown network call is retried, up to 3 attempts in all, 1s after the
\* first attempt and 2s after the second and with no wait after the last; the call
\* succeeds when an attempt does, and after 3 thrown attempts it fails with
\* 'Failed after 3 attempts' and the last thrown message.
C4_NetworkRetryBudget ==
    /\ Len(http) <= 3
    /\ \A i \in DOMAIN http :
          (http[i].answer = "throw" /\ i < Len(http)) =>
              /\ http[i + 1].url = http[i].url
              /\ http[i + 1].gap = 1000 * i
    /\ (Returned /\ http[Len(http)].answer = "200") => fwrResult.success
    /\ (http # <<>> /\ AllAnswered(http, {"throw"})) =>
          /\ pc \in {"attempt", "return"}
          /\ Len(http) = 3 => sinceLast = 0
          /\ Returned =>
                /\ Len(http) = 3
                /\ ~fwrResult.success
                /\ Contains(fwrResult.error, <<"Failed", "after", "3", "attempts">>)
                /\ Contains(fwrResult.error, http[3].message)

C4_Witness ==
    /\ Returned
    /\ Len(http) = 3
    /\ AllAnswered(http, {"throw"})
    /\ http[1].message # http[3].message
    /\ ~fwrResult.success

\* C5: a 404 answer to a listing request is never retried and ends the operation
\* with a failure containing 'not found', no comment request being issued; when it
\* answers the first request, that request is the only one of the operation.
C5_NotFoundEndsOperation ==
    "listing" \in wire.notFound =>
        /\ LastSent.url.kind = "listing"
        /\ LastSent.answer = "404"
        /\ pc \in {"return", "done"}
        /\ wire.fetched = <<>>
        /\ (faults = 1 /\ wire.cursor = Null) => wire.requests = 1
        /\ Done => /\ ~result.success
                   /\ Contains(result.error, <<"not", "found">>)

C5_Witness ==
    /\ Done
    /\ "listing" \in wire.notFound
    /\ wire.requests = 1
    /\ result.error = NotFoundError

\* C6: a successful operation returns at most limit posts, none older than the
\* cutoff of the requested period.
C6_LimitAndCutoff ==
    (Done /\ result.success) =>
        /\ Len(result.posts) <= limit
        /\ \A i \in DOMAIN result.posts : result.posts[i].createdUtc >= PeriodCutoff

C6_Witness ==
    /\ Done
    /\ result.success
    /\ limit = 1
    /\ served = 2
    /\ Len(result.posts) = 1
    /\ period = <<"1", "8", "0", "d">>

\* C7: a listing request asks for min(100, limit - collected) posts and carries the
\* cursor of the page before it; none is issued once a page had an empty cursor or
\* no children, or once limit posts are collected; a page without children ends the
\* listing with success.
C7_Pagination ==
    /\ (pc = "await" /\ url.kind = "listing") =>
          /\ Len(posts) < limit
          /\ LastSent.url.limit =
                (IF limit - Len(posts) < 100 THEN limit - Len(posts) ELSE 100)
          /\ LastSent.url.after = wire.cursor
    /\ wire.closedAt > 0 => wire.listing = wire.closedAt
    /\ (wire.empty /\ Done) => result.success

C7_Witness ==
    /\ Done
    /\ result.success
    /\ limit > 100
    /\ wire.listing = 2
    /\ wire.empty
    /\ Len(result.posts) = 1

\* C8: the operation fails only when the listing fails; a failed comment fetch
\* stores an empty comment list for its post, and the comments of every returned
\* post are requested, whatever became of the fetches before.
C8_CommentFailuresTolerated ==
    /\ (Done /\ ~result.success) =>
          /\ wire.fetched = <<>>
          /\ LastSent.url.kind = "listing"
          /\ LastSent.answer # "200"
    /\ (Done /\ result.success) =>
          wire.fetched = [i \in DOMAIN result.posts |-> result.posts[i].id]
    /\ (pc = "comments_loop" /\ idx > 1 /\ LastSent.answer # "200") =>
          /\ postsResult[idx - 1].id \in DOMAIN comments
          /\ comments[postsResult[idx - 1].id] = <<>>

C8_Witness ==
    /\ Done
    /\ result.success
    /\ Len(result.posts) = 2
    /\ result.posts[1].id # result.posts[2].id
    /\ result.comments[result.posts[1].id] = <<>>
    /\ result.comments[result.posts[2].id] # <<>>
    /\ "comments" \in wire.forbidden

\* C9: in a successful result the keys of the comments map are the ids of the
\* returned posts.
C9_CommentKeysArePostIds ==
    (Done /\ result.success) => DOMAIN result.comments = PostIdsOf(result.posts)

C9_Witness ==
    /\ Done
    /\ result.success
    /\ Len(result.posts) = 2
    /\ Cardinality(DOMAIN result.comments) = 2
    /\ faults > 0

\* C10: at least REQUEST_DELAY_MS elapse between any two successive requests of the
\* operation, whatever the answer to the earlier one.
C10_DelayBetweenRequests ==
    (Requested /\ LastSent.seq > 1) => LastSent.gap >= REQUEST_DELAY_MS

\* the ids of the first n posts, in order
IdsOf(ps, n) == [i \in 1..Min(n, Len(ps)) |-> ps[i].id]

\* C23: no request is sent before the one before it was answered; no listing
\* request follows a comment request; the comments of every returned post are
\* fetched once, in the order of the posts.
C23_RequestsAreSerial ==
    /\ \A i \in DOMAIN http : http[i].answer = "pending" => i = Len(http)
    /\ (Requested /\ LastSent.answer = "pending") <=> pc = "await"
    /\ wire.fetched # <<>> =>
          /\ url.kind # "listing"
          /\ pc \notin {"start", "posts_loop"}
    /\ pc \in {"attempt", "await", "return"} /\ url.kind = "comments" =>
          wire.fetched = IdsOf(postsResult, idx)
    /\ pc = "comments_loop" =>
          /\ idx <= Len(postsResult) + 1
          /\ wire.fetched = IdsOf(postsResult, idx - 1)
    /\ (Done /\ result.success) => wire.fetched = IdsOf(result.posts, Len(result.posts))
    /\ (Done /\ ~result.success) => wire.fetched = <<>>

\* two posts were returned after two listing pages, and the comment request of the
\* second is in flight
C23_Witness ==
    /\ pc = "await"
    /\ url.kind = "comments"
    /\ wire.listing = 2
    /\ Len(postsResult) = 2
    /\ idx = 2
    /\ wire.fetched = <<postsResult[1].id, postsResult[2].id>>

\* C34: against a server that answers every listing request successfully the
\* listing requests of one operation are bounded by a function of limit: a request is
\* sent only while fewer than limit posts are kept, so limit requests at most.
C34_ListingRequestsBoundedByLimit ==
    faults = 0 => wire.listing <= limit

\* ================================================================== llm.ts

MAX_TOKENS_PER_CHUNK == 80000
CHARS_PER_TOKEN == 4
MAX_CHARS_PER_CHUNK == MAX_TOKENS_PER_CHUNK * CHARS_PER_TOKEN

\* posts of a corpus
MaxPosts == 3

\* A string is a piece of n characters: spelt out (s is the string itself), or a
\* run of n characters of which only the name s is kept.  A line is a sequence of
\* pieces, a text a sequence of lines (joined by '\n').
Str(s) == [s |-> s, n |-> Len(s)]
Run(name, n) == [s |-> name, n |-> n]

RECURSIVE LineLength(_)
LineLength(line) ==
    IF line = <<>> THEN 0 ELSE Head(line).n + LineLength(Tail(line))

RECURSIVE LinesLength(_)
LinesLength(lines) ==
    IF lines = <<>> THEN 0 ELSE LineLength(Head(lines)) + LinesLength(Tail(lines))

\* lines.join('\n').length
JoinedLength(lines) ==
    IF lines = <<>> THEN 0 ELSE LinesLength(lines) + (Len(lines) - 1)

\* data.comments.get(id) || []
MapGet(map, key) == IF key \in DOMAIN map THEN map[key] ELSE <<>>

\* the comments level by level
RECURSIVE flattenCommentsByLevel(_)
flattenCommentsByLevel(cs) ==
    IF cs = <<>> THEN <<>>
    ELSE <<Head(cs)>> \o flattenCommentsByLevel(Tail(cs) \o Head(cs).replies)

\* flattenComments: the comments in pre-order
RECURSIVE flattenComments(_)
flattenComments(cs) ==
    IF cs = <<>> THEN <<>>
    ELSE <<Head(cs)>> \o flattenComments(Head(cs).replies) \o flattenComments(Tail(cs))

\* the for loop over flatComments: one line per comment that has a body
RECURSIVE CommentLines(_)
CommentLines(flat) ==
    IF flat = <<>> THEN <<>>
    ELSE LET comment == Head(flat)
             rest == CommentLines(Tail(flat))
         IN  IF comment.body.n > 0 /\ comment.body.s # "[deleted]"
                  /\ comment.body.s # "[removed]"
                THEN << <<Str("> ["), comment.author, Str(", score: "),
                          Str(ToString(comment.score)), Str("]: "), comment.body>> >>
                     \o rest
                ELSE rest

\* the lines dataToText pushes for one post
PostLines(post, cmap) ==
    << <<Str("## Post: "), post.title>>,
       <<Str("Score: "), Str(ToString(post.score)), Str(" | Comments: "),
         Str(ToString(post.numComments)), Str(" | Author: "), post.author>> >>
    \o (IF post.selftext.n > 0 THEN << <<Str("Content: "), post.selftext>> >> ELSE <<>>)
    \o << <<>> >>
    \o CommentLines(flattenComments(MapGet(cmap, post.id)))
    \o << <<>>, <<Str("---")>>, <<>> >>

RECURSIVE AllPostLines(_, _)
AllPostLines(ps, cmap) ==
    IF ps = <<>> THEN <<>>
    ELSE PostLines(Head(ps), cmap) \o AllPostLines(Tail(ps), cmap)

\* dataToText: the lines of the text, before lines.join('\n')
dataToText(d) ==
    << <<Str("# Subreddit: r/"), Str(d.subreddit)>>,
       <<Str("# Total posts: "), Str(ToString(Len(d.posts)))>>,
       <<>> >>
    \o AllPostLines(d.posts, d.comments)

\* dataToText(data).length
TextLength(d) == JoinedLength(dataToText(d))

\* postData of chunkData's loop: the post alone with its comments
PostData(d, post) ==
    [subreddit |-> d.subreddit, posts |-> <<post>>,
     comments |-> MapSet(<<>>, post.id, MapGet(d.comments, post.id))]

SealChunkBySizeOfPost(currentSize, postLength, held) ==
    postLength > MAX_CHARS_PER_CHUNK /\ held > 0

SealChunkWhenOver(currentSize, postLength, held) ==
    currentSize + postLength > MAX_CHARS_PER_CHUNK

\* the chunk is sealed once it is over the budget
SealChunkOnceOver(currentSize, postLength, held) ==
    currentSize > MAX_CHARS_PER_CHUNK /\ held > 0

\* currentSize + postText.length > MAX_CHARS_PER_CHUNK && currentPosts.length > 0
SealChunk(currentSize, postLength, held) ==
    currentSize + postLength > MAX_CHARS_PER_CHUNK /\ held > 0

NoChunk == [chunks |-> <<>>, currentPosts |-> <<>>, currentComments |-> <<>>,
            currentSize |-> 0]

\* chunkData's for loop from the k-th post on, st the loop's variables before it
RECURSIVE ChunkLoop(_, _, _)
ChunkLoop(d, k, st) ==
    IF k > Len(d.posts) THEN st
    ELSE LET post == d.posts[k]
             postComments == MapGet(d.comments, post.id)
             postLength == TextLength(PostData(d, post))
             sealed ==
                 IF SealChunk(st.currentSize, postLength, Len(st.currentPosts))
                    THEN [chunks |-> Append(st.chunks,
                                       [subreddit |-> d.subreddit,
                                        posts |-> st.currentPosts,
                                        comments |-> st.currentComments]),
                          currentPosts |-> <<>>, currentComments |-> <<>>,
                          currentSize |-> 0]
                    ELSE st
         IN  ChunkLoop(d, k + 1,
                 [chunks |-> sealed.chunks,
                  currentPosts |-> Append(sealed.currentPosts, post),
                  currentComments |-> MapSet(sealed.currentComments, post.id,
                                             postComments),
                  currentSize |-> sealed.currentSize + postLength])

chunkData(d) ==
    IF TextLength(d) <= MAX_CHARS_PER_CHUNK THEN <<d>>
    ELSE LET st == ChunkLoop(d, 1, NoChunk)
         IN  IF Len(st.currentPosts) > 0
                THEN Append(st.chunks, [subreddit |-> d.subreddit,
                                        posts |-> st.currentPosts,
                                        comments |-> st.currentComments])
                ELSE st.chunks

\* ------------------------------------------------------------- the corpus

\* post.selftext: none, a few words, half the budget of a chunk, a whole budget
Selftexts ==
    {Str(""), Run("text", 40), Run("text", MAX_CHARS_PER_CHUNK \div 2),
     Run("text", MAX_CHARS_PER_CHUNK)}

Reply == [id |-> "c2", body |-> Run("reply", 30), author |-> Str("bob"), score |-> 3,
          replies |-> <<>>]
Comment == [id |-> "c1", body |-> Run("comment", 60), author |-> Str("carol"),
            score |-> 12, replies |-> <<Reply>>]
Deleted == [id |-> "c3", body |-> Str("[deleted]"), author |-> Str("[deleted]"),
            score |-> 1, replies |-> <<>>]

CommentTrees == {<<>>, <<Comment>>, <<Deleted>>}

\* the k-th post of a corpus, as parsePost leaves it
RedditPost(k, selftext) ==
    [id |-> "p" \o ToString(k), title |-> Run("title", 20), selftext |-> selftext,
     author |-> Str("alice"), score |-> 100 + k, numComments |-> 5]

\* a corpus as fetchRedditData returns it, of posts with these selftexts and these
\* comments: every post has its entry in comments
Corpus(texts, trees) ==
    [subreddit |-> "test",
     posts |-> [k \in DOMAIN texts |-> RedditPost(k, texts[k])],
     comments |-> [id \in {"p" \o ToString(k) : k \in DOMAIN texts} |->
                      trees[CHOOSE k \in DOMAIN texts : id = "p" \o ToString(k)]]]

\* -------------------------------------------------------------- chunkData

ChunkInit ==
    /\ RedditIdle
    /\ AuthIdle
    /\ \E n \in 0..MaxPosts :
          \E texts \in [1..n -> Selftexts], trees \in [1..n -> CommentTrees] :
              redditData = Corpus(texts, trees)
    /\ chunks = <<>>
    /\ results = <<>>
    /\ merged = NoAnalysis
    /\ ParseIdle
    /\ AnalyzeIdle
    /\ llmPc = "chunk"

ChunkData ==
    /\ llmPc = "chunk"
    /\ chunks' = chunkData(redditData)
    /\ llmPc' = "chunked"
    /\ UNCHANGED <<redditVars, authVars, serverVars, redditData, results, merged, response, jsonText,
                   fenceTag, parsed, analyzeVars>>

ChunkNext == ChunkData

ChunkSpec == ChunkInit /\ [][ChunkNext]_vars

Chunked == llmPc = "chunked"

RECURSIVE PostsOfChunks(_)
PostsOfChunks(cs) ==
    IF cs = <<>> THEN <<>> ELSE Head(cs).posts \o PostsOfChunks(Tail(cs))

\* the length of the post's own flattened text
OwnLength(post) == TextLength(PostData(redditData, post))

\* C11: the posts of the chunks, in chunk order, are the posts of the corpus in
\* their order; chunkData returns at least one chunk, and a chunk without posts only
\* for a corpus without posts.
C11_ChunksPartitionPosts ==
    Chunked =>
        /\ PostsOfChunks(chunks) = redditData.posts
        /\ Len(chunks) >= 1
        /\ \A c \in DOMAIN chunks :
              chunks[c].posts = <<>> => redditData.posts = <<>>

C11_Witness ==
    /\ Chunked
    /\ Len(chunks) = 2
    /\ Len(chunks[1].posts) = 2
    /\ Len(chunks[2].posts) = 1

\* C12: a chunk holds whole posts, each with its full comment tree and nothing else
\* in its comments map; a post whose own text is over the budget is the only post of
\* its chunk, so the post before it closes the chunk before and the post after it
\* opens the next.
C12_PostsNeverSplit ==
    Chunked =>
        \A c \in DOMAIN chunks :
            /\ DOMAIN chunks[c].comments = {chunks[c].posts[j].id : j \in DOMAIN chunks[c].posts}
            /\ \A j \in DOMAIN chunks[c].posts :
                  LET post == chunks[c].posts[j]
                  IN  /\ chunks[c].comments[post.id] = redditData.comments[post.id]
                      /\ OwnLength(post) > MAX_CHARS_PER_CHUNK =>
                            Len(chunks[c].posts) = 1

C12_Witness ==
    /\ Chunked
    /\ Len(chunks) = 3
    /\ Len(redditData.posts) = 3
    /\ OwnLength(redditData.posts[2]) > MAX_CHARS_PER_CHUNK
    /\ OwnLength(redditData.posts[1]) < MAX_CHARS_PER_CHUNK \div 2
    /\ OwnLength(redditData.posts[3]) < MAX_CHARS_PER_CHUNK \div 2
    /\ redditData.comments["p2"] = <<Comment>>

\* the sizes chunkData added up for the posts of a chunk
RECURSIVE AccumulatedSize(_)
AccumulatedSize(ps) ==
    IF ps = <<>> THEN 0 ELSE OwnLength(Head(ps)) + AccumulatedSize(Tail(ps))

\* C36: when the corpus does not fit one chunk, every chunk of more than one post has
\* an accumulated size (the sum of the lengths of its posts' own texts) of at most
\* MAX_CHARS_PER_CHUNK = 320000; only a chunk of a single post can be over it.
C36_ChunksWithinBudget ==
    (Chunked /\ TextLength(redditData) > MAX_CHARS_PER_CHUNK) =>
        \A c \in DOMAIN chunks :
            /\ MAX_CHARS_PER_CHUNK = 320000
            /\ Len(chunks[c].posts) > 1 =>
                  AccumulatedSize(chunks[c].posts) <= MAX_CHARS_PER_CHUNK
            /\ AccumulatedSize(chunks[c].posts) > MAX_CHARS_PER_CHUNK =>
                  Len(chunks[c].posts) = 1

\* a chunk of two posts within the budget, and a chunk of one post over it
C36_Witness ==
    /\ Chunked
    /\ TextLength(redditData) > MAX_CHARS_PER_CHUNK
    /\ Len(chunks) = 2
    /\ Len(chunks[1].posts) = 2
    /\ AccumulatedSize(chunks[1].posts) > MAX_CHARS_PER_CHUNK \div 2
    /\ AccumulatedSize(chunks[1].posts) <= MAX_CHARS_PER_CHUNK
    /\ Len(chunks[2].posts) = 1
    /\ AccumulatedSize(chunks[2].posts) > MAX_CHARS_PER_CHUNK

\* --------------------------------------------------- mergeAnalysisResults

\* the slice(0, n) of the merged lists
PainsCap == 10
PatternsCap == 10
QuotesCap == 10
TermsCap == 10
EmotionalPatternsCap == 5
HypothesesCap == 5
\* hypothesis.statement.toLowerCase().slice(0, 100)
HypothesisKeyLength == 100

\* chunk results merged at once
MaxResults == 2
\* pains, patterns, quotes, terms and hypotheses of one chunk result
MaxItems == 6

UPPER == <<"A", "B", "C", "D", "E", "F", "G", "H", "I", "J", "K", "L", "M", "N", "O",
           "P", "Q", "R", "S", "T", "U", "V", "W", "X", "Y", "Z">>
LOWER == <<"a", "b", "c", "d", "e", "f", "g", "h", "i", "j", "k", "l", "m", "n", "o",
           "p", "q", "r", "s", "t", "u", "v", "w", "x", "y", "z">>

\* the lower-case letter of every upper-case letter
LowerCaseOf == [c \in {UPPER[u] : u \in DOMAIN UPPER} |->
                   LOWER[CHOOSE u \in DOMAIN UPPER : UPPER[u] = c]]

\* str.toLowerCase() on a sequence of characters
ToLowerCase(str) ==
    [k \in DOMAIN str |->
        IF str[k] \in DOMAIN LowerCaseOf THEN LowerCaseOf[str[k]] ELSE str[k]]

\* array.slice(0, n), str.slice(0, n)
Slice(seq, n) == SubSeq(seq, 1, Min(n, Len(seq)))

\* a Map in insertion order: its entries [key, value]
MapHas(map, key) == \E k \in DOMAIN map : map[k].key = key
MapValues(map) == [k \in DOMAIN map |-> map[k].value]

UpgradeFrequencyToLatest(existing, incoming) == incoming

\* the frequency of a pain seen again
UpgradeFrequency(existing, incoming) ==
    IF incoming = "high" \/ existing = "high" THEN "high"
    ELSE IF incoming = "medium" \/ existing = "medium" THEN "medium"
    ELSE existing

\* the body of the loop over result.pains
AddPain(painMap, pain) ==
    LET key == ToLowerCase(pain.description)
    IN  IF MapHas(painMap, key)
           THEN [k \in DOMAIN painMap |->
                    IF painMap[k].key = key
                       THEN [key |-> key,
                             value |-> [painMap[k].value EXCEPT
                                 !.evidence = @ \o pain.evidence,
                                 !.frequency = UpgradeFrequency(@, pain.frequency)]]
                       ELSE painMap[k]]
           ELSE Append(painMap, [key |-> key, value |-> pain])

RECURSIVE AddPains(_, _)
AddPains(painMap, pains) ==
    IF pains = <<>> THEN painMap
    ELSE AddPains(AddPain(painMap, Head(pains)), Tail(pains))

RECURSIVE MergePains(_, _)
MergePains(painMap, rs) ==
    IF rs = <<>> THEN painMap
    ELSE MergePains(AddPains(painMap, Head(rs).pains), Tail(rs))

PatternKeyExact(name) == name

\* pattern.name.toLowerCase()
PatternKey(name) == ToLowerCase(name)

\* the body of the loop over result.patterns
AddPattern(patternMap, pattern) ==
    LET key == PatternKey(pattern.name)
    IN  IF MapHas(patternMap, key)
           THEN [k \in DOMAIN patternMap |->
                    IF patternMap[k].key = key
                       THEN [key |-> key,
                             value |-> [patternMap[k].value EXCEPT
                                 !.occurrences = @ + pattern.occurrences]]
                       ELSE patternMap[k]]
           ELSE Append(patternMap, [key |-> key, value |-> pattern])

RECURSIVE AddPatterns(_, _)
AddPatterns(patternMap, patterns) ==
    IF patterns = <<>> THEN patternMap
    ELSE AddPatterns(AddPattern(patternMap, Head(patterns)), Tail(patterns))

RECURSIVE MergePatterns(_, _)
MergePatterns(patternMap, rs) ==
    IF rs = <<>> THEN patternMap
    ELSE MergePatterns(AddPatterns(patternMap, Head(rs).patterns), Tail(rs))

\* allQuotes.push(...result.quotes) over the results
RECURSIVE AllQuotes(_)
AllQuotes(rs) ==
    IF rs = <<>> THEN <<>> ELSE Head(rs).quotes \o AllQuotes(Tail(rs))

\* q put into a list sorted by (a, b) => b.score - a.score, behind its equals
RECURSIVE InsertByScore(_, _)
InsertByScore(sorted, q) ==
    IF sorted = <<>> THEN <<q>>
    ELSE IF q.score > Head(sorted).score THEN <<q>> \o sorted
    ELSE <<Head(sorted)>> \o InsertByScore(Tail(sorted), q)

SortByScoreUnsorted(quotes, sorted) == sorted \o quotes

\* allQuotes.sort((a, b) => b.score - a.score): stable, highest score first
RECURSIVE SortByScore(_, _)
SortByScore(quotes, sorted) ==
    IF quotes = <<>> THEN sorted
    ELSE SortByScore(Tail(quotes), InsertByScore(sorted, Head(quotes)))

\* set.add(x) on a Set in insertion order
SetAdd(set, x) == IF \E k \in DOMAIN set : set[k] = x THEN set ELSE Append(set, x)

RECURSIVE SetAddAll(_, _)
SetAddAll(set, xs) ==
    IF xs = <<>> THEN set ELSE SetAddAll(SetAdd(set, Head(xs)), Tail(xs))

RECURSIVE AllTerms(_, _)
AllTerms(set, rs) ==
    IF rs = <<>> THEN set
    ELSE AllTerms(SetAddAll(set, Head(rs).userLanguage.commonTerms), Tail(rs))

RECURSIVE AllEmotionalPatterns(_, _)
AllEmotionalPatterns(set, rs) ==
    IF rs = <<>> THEN set
    ELSE AllEmotionalPatterns(
             SetAddAll(set, Head(rs).userLanguage.emotionalPatterns), Tail(rs))

\* tones[0] || 'mixed'
Tone(rs) ==
    IF rs = <<>> \/ rs[1].userLanguage.tone = "" THEN "mixed"
    ELSE rs[1].userLanguage.tone

HypothesisKeyWhole(statement) == ToLowerCase(statement)

\* hypothesis.statement.toLowerCase().slice(0, 100)
HypothesisKey(statement) == Slice(ToLowerCase(statement), HypothesisKeyLength)

\* the loops over result.hypotheses: st is [hypothesisSet, allHypotheses]
RECURSIVE AddHypotheses(_, _)
AddHypotheses(st, hypotheses) ==
    IF hypotheses = <<>> THEN st
    ELSE LET hypothesis == Head(hypotheses)
             key == HypothesisKey(hypothesis.statement)
         IN  AddHypotheses(
                 IF key \notin st.hypothesisSet
                    THEN [hypothesisSet |-> st.hypothesisSet \cup {key},
                          allHypotheses |-> Append(st.allHypotheses, hypothesis)]
                    ELSE st,
                 Tail(hypotheses))

RECURSIVE MergeHypotheses(_, _)
MergeHypotheses(st, rs) ==
    IF rs = <<>> THEN st
    ELSE MergeHypotheses(AddHypotheses(st, Head(rs).hypotheses), Tail(rs))

CapPainsAtEnd(pains) == SubSeq(pains, Max(1, Len(pains) - PainsCap + 1), Len(pains))

\* Array.from(painMap.values()).slice(0, 10)
CapPains(pains) == Slice(pains, PainsCap)

mergeAnalysisResults(rs) ==
    IF Len(rs) = 1 THEN rs[1]
    ELSE [pains |-> CapPains(MapValues(MergePains(<<>>, rs))),
          patterns |-> Slice(MapValues(MergePatterns(<<>>, rs)), PatternsCap),
          quotes |-> Slice(SortByScore(AllQuotes(rs), <<>>), QuotesCap),
          userLanguage |->
              [commonTerms |-> Slice(AllTerms(<<>>, rs), TermsCap),
               tone |-> Tone(rs),
               emotionalPatterns |->
                   Slice(AllEmotionalPatterns(<<>>, rs), EmotionalPatternsCap)],
          hypotheses |->
              Slice(MergeHypotheses([hypothesisSet |-> {}, allHypotheses |-> <<>>],
                                    rs).allHypotheses,
                    HypothesesCap)]

\* ------------------------------------------- what the merge writes, and where
\* The objects and arrays the merge can write to, by address: the pain and pattern
\* objects of the inputs, the evidence array of every input pain, the quotes array of
\* every input, and the objects and arrays the merge creates.  A pain object holds the
\* address of its evidence array.

PainAt(r, i) == <<"pain", r, i>>
EvidenceAt(r, i) == <<"evidence", r, i>>
PatternAt(r, i) == <<"pattern", r, i>>
QuotesAt(r) == <<"quotes", r, 0>>

\* the inputs, laid out at their addresses
InputHeap(rs) ==
    [a \in {PainAt(r, i) : r \in DOMAIN rs, i \in 1..MaxItems}
         \cup {EvidenceAt(r, i) : r \in DOMAIN rs, i \in 1..MaxItems}
         \cup {PatternAt(r, i) : r \in DOMAIN rs, i \in 1..MaxItems}
         \cup {QuotesAt(r) : r \in DOMAIN rs} |->
        CASE a[1] = "pain" ->
                (IF a[3] <= Len(rs[a[2]].pains)
                    THEN [rs[a[2]].pains[a[3]] EXCEPT !.evidence = EvidenceAt(a[2], a[3])]
                    ELSE <<>>)
          [] a[1] = "evidence" ->
                (IF a[3] <= Len(rs[a[2]].pains) THEN rs[a[2]].pains[a[3]].evidence
                                                 ELSE <<>>)
          [] a[1] = "pattern" ->
                (IF a[3] <= Len(rs[a[2]].patterns) THEN rs[a[2]].patterns[a[3]]
                                                    ELSE <<>>)
          [] a[1] = "quotes" -> rs[a[2]].quotes]

\* a new object or array holding v: the heap with it, and its address
Alloc(heap, v) ==
    LET a == <<"new", Cardinality(DOMAIN heap), 0>>
    IN  [heap |-> (a :> v) @@ heap, addr |-> a]

\* a write to the object or array at address a
Store(heap, a, v) == (a :> v) @@ heap

\* the value a Map in insertion order holds for a key it has
MapValueOf(map, key) == map[CHOOSE k \in DOMAIN map : map[k].key = key].value

\* { ...pain }: a new object with the evidence array of the input
PainCopiedShallow(heap, a) == Alloc(heap, heap[a])

\* { ...pain, evidence: [...pain.evidence] }: a new object with a new evidence array
PainCopied(heap, a) ==
    LET evidence == Alloc(heap, heap[heap[a].evidence])
    IN  Alloc(evidence.heap, [heap[a] EXCEPT !.evidence = evidence.addr])

\* l.201-213, the body of the loop over result.pains, for the pain at address a
WritePain(st, a) ==
    LET pain == st.heap[a]
        key == ToLowerCase(pain.description)
    IN  IF MapHas(st.painMap, key)
           THEN LET existing == MapValueOf(st.painMap, key)
                    pushed == Store(st.heap, st.heap[existing].evidence,
                                    st.heap[st.heap[existing].evidence]
                                        \o st.heap[pain.evidence])
                IN  [st EXCEPT !.heap =
                        Store(pushed, existing,
                              [pushed[existing] EXCEPT
                                  !.frequency = UpgradeFrequency(@, pain.frequency)])]
           ELSE LET copy == PainCopied(st.heap, a)
                IN  [st EXCEPT !.heap = copy.heap,
                               !.painMap = Append(@, [key |-> key, value |-> copy.addr])]

\* { ...pattern }
PatternCopied(heap, a) == Alloc(heap, heap[a])

\* l.221-226, the body of the loop over result.patterns
WritePattern(st, a) ==
    LET pattern == st.heap[a]
        key == PatternKey(pattern.name)
    IN  IF MapHas(st.patternMap, key)
           THEN LET existing == MapValueOf(st.patternMap, key)
                IN  [st EXCEPT !.heap =
                        Store(@, existing,
                              [st.heap[existing] EXCEPT
                                  !.occurrences = @ + pattern.occurrences])]
           ELSE LET copy == PatternCopied(st.heap, a)
                IN  [st EXCEPT !.heap = copy.heap,
                               !.patternMap = Append(@, [key |-> key, value |-> copy.addr])]

\* the loops over results and their pains and patterns; st.r and st.i are the result
\* and the item the loops are at
RECURSIVE WritePains(_, _)
WritePains(st, rs) ==
    IF st.r > Len(rs) THEN st
    ELSE IF st.i > Len(rs[st.r].pains)
            THEN WritePains([st EXCEPT !.r = @ + 1, !.i = 1], rs)
    ELSE WritePains([WritePain(st, PainAt(st.r, st.i)) EXCEPT !.i = @ + 1], rs)

RECURSIVE WritePatterns(_, _)
WritePatterns(st, rs) ==
    IF st.r > Len(rs) THEN st
    ELSE IF st.i > Len(rs[st.r].patterns)
            THEN WritePatterns([st EXCEPT !.r = @ + 1, !.i = 1], rs)
    ELSE WritePatterns([WritePattern(st, PatternAt(st.r, st.i)) EXCEPT !.i = @ + 1], rs)

\* l.231-236: allQuotes is a new array, filled from the inputs and sorted in place
RECURSIVE PushQuotes(_, _, _, _)
PushQuotes(heap, allQuotes, rs, r) ==
    IF r > Len(rs) THEN heap
    ELSE PushQuotes(Store(heap, allQuotes, heap[allQuotes] \o heap[QuotesAt(r)]),
                    allQuotes, rs, r + 1)

\* the heap when mergeAnalysisResults(rs) returns; the loops over userLanguage and
\* hypotheses (l.239-259) read the inputs and write to new sets and arrays only
HeapAfterMerge(rs) ==
    LET start == [heap |-> InputHeap(rs), painMap |-> <<>>, patternMap |-> <<>>,
                  r |-> 1, i |-> 1]
        pains == WritePains(start, rs)
        patterns == WritePatterns([pains EXCEPT !.r = 1, !.i = 1], rs)
        allQuotes == Alloc(patterns.heap, <<>>)
        pushed == PushQuotes(allQuotes.heap, allQuotes.addr, rs, 1)
    IN  [patterns EXCEPT
            !.heap = Store(pushed, allQuotes.addr,
                           SortByScore(pushed[allQuotes.addr], <<>>))]

\* the pain the map's object at address a is, with its evidence
PainOf(heap, a) == [heap[a] EXCEPT !.evidence = heap[heap[a].evidence]]

\* the inputs as the call leaves them
ResultsAfterMerge(rs) ==
    IF Len(rs) = 1 THEN rs
    ELSE LET heap == HeapAfterMerge(rs).heap
         IN  [r \in DOMAIN rs |->
                [rs[r] EXCEPT
                    !.pains = [i \in DOMAIN rs[r].pains |-> PainOf(heap, PainAt(r, i))],
                    !.patterns = [i \in DOMAIN rs[r].patterns |-> heap[PatternAt(r, i)]],
                    !.quotes = heap[QuotesAt(r)]]]

\* the merged pains and patterns, read from the maps of the heap
MergedOnHeap(rs) ==
    LET st == HeapAfterMerge(rs)
    IN  [pains |-> [k \in DOMAIN st.painMap |-> PainOf(st.heap, st.painMap[k].value)],
         patterns |-> [k \in DOMAIN st.patternMap |-> st.heap[st.patternMap[k].value]]]

\* ------------------------------------------------------ the chunk results

\* the n-th name in lower or in upper case: "item a", "ITEM A", "item b", ...
ItemName(n, upper) ==
    IF upper THEN <<"I", "T", "E", "M", " ", UPPER[n]>>
    ELSE <<"i", "t", "e", "m", " ", LOWER[n]>>

\* a statement of 101 characters: 99 times h, the n-th letter, and a last character
Statement(n, upper, last) ==
    [k \in 1..(HypothesisKeyLength - 1) |-> IF upper THEN "H" ELSE "h"]
        \o <<IF upper THEN UPPER[n] ELSE LOWER[n], last>>

\* what the model says of the tone of a chunk whose items have this frequency
ToneOf(frequency) ==
    CASE frequency = "high" -> ""
      [] frequency = "medium" -> "frustrated but seeking help"
      [] frequency = "low" -> "enthusiastic"

\* the result of analysing one chunk: the items numbered first..last, all of one
\* frequency and written in one case; c tells the chunks of either case apart
ChunkResult(first, last, upper, frequency) ==
    LET c == IF upper THEN "B" ELSE "A"
        size == last - first + 1
        at(k) == first + k - 1
    IN  [pains |-> [k \in 1..size |->
            [description |-> ItemName(at(k), upper),
             frequency |-> frequency,
             mentionCount |-> at(k) + (IF upper THEN 10 ELSE 0),
             evidence |-> <<c \o ToString(at(k))>>]],
         patterns |-> [k \in 1..size |->
            [name |-> ItemName(at(k), upper),
             description |-> c,
             occurrences |-> at(k) + (IF upper THEN 10 ELSE 0)]],
         quotes |-> [k \in 1..size |->
            [text |-> "quote " \o ToString(at(k)), context |-> c,
             author |-> "u" \o ToString(k),
             score |-> ((at(k) * 7) % 5) + (IF upper THEN 2 ELSE 0)]],
         userLanguage |->
            [commonTerms |-> [k \in 1..size |-> "term " \o ToString(at(k))],
             tone |-> ToneOf(frequency),
             emotionalPatterns |-> [k \in 1..size |-> "emotion " \o ToString(at(k))]],
         hypotheses |-> [k \in 1..size |->
            [statement |-> Statement(at(k), upper, c),
             confidence |-> frequency,
             supportingEvidence |-> <<c>>]]]

Frequencies == {"high", "medium", "low"}

\* one item, a full list, and a full list that shares its first item with the last
\* of the other
ItemRanges == {<<1, 1>>, <<1, MaxItems>>, <<MaxItems, 2 * MaxItems - 1>>}

ChunkResults ==
    {ChunkResult(range[1], range[2], upper, frequency) :
        range \in ItemRanges, upper \in BOOLEAN, frequency \in Frequencies}

MergeInit ==
    /\ RedditIdle
    /\ AuthIdle
    /\ redditData = NoData
    /\ chunks = <<>>
    /\ results \in UNION {[1..n -> ChunkResults] : n \in 1..MaxResults}
    /\ merged = NoAnalysis
    /\ ParseIdle
    /\ AnalyzeIdle
    /\ llmPc = "merge"

MergeAnalysisResults ==
    /\ llmPc = "merge"
    /\ merged' = mergeAnalysisResults(results)
    /\ llmPc' = "merged"
    /\ results' = ResultsAfterMerge(results)
    /\ UNCHANGED <<redditVars, authVars, serverVars, redditData, chunks, response, jsonText,
                   fenceTag, parsed, analyzeVars>>

MergeNext == MergeAnalysisResults

MergeSpec == MergeInit /\ [][MergeNext]_vars

Merged == llmPc = "merged"
\* mergeAnalysisResults went past its early return
MergedMany == Merged /\ Len(results) >= 2

\* the lists named `field` of the records rs, one after the other
RECURSIVE ConcatField(_, _)
ConcatField(rs, field) ==
    IF rs = <<>> THEN <<>> ELSE Head(rs)[field] \o ConcatField(Tail(rs), field)

UserLanguages(rs) == [k \in DOMAIN rs |-> rs[k].userLanguage]

LowerCased(items, field) == [k \in DOMAIN items |-> ToLowerCase(items[k][field])]

\* the items whose key occurs at no earlier place, in their order
RECURSIVE FirstOfEachKey(_, _, _)
FirstOfEachKey(items, keys, k) ==
    IF k > Len(items) THEN <<>>
    ELSE (IF \A j \in 1..(k - 1) : keys[j] # keys[k] THEN <<items[k]>> ELSE <<>>)
         \o FirstOfEachKey(items, keys, k + 1)

\* the items with this key, in their order
RECURSIVE WithKey(_, _, _, _)
WithKey(items, keys, key, k) ==
    IF k > Len(items) THEN <<>>
    ELSE (IF keys[k] = key THEN <<items[k]>> ELSE <<>>)
         \o WithKey(items, keys, key, k + 1)

Severity(frequency) ==
    CASE frequency = "high" -> 3 [] frequency = "medium" -> 2 [] frequency = "low" -> 1

RECURSIVE SumOccurrences(_)
SumOccurrences(patterns) ==
    IF patterns = <<>> THEN 0
    ELSE Head(patterns).occurrences + SumOccurrences(Tail(patterns))

\* how often x occurs in the list
Count(list, x) == Cardinality({k \in DOMAIN list : list[k] = x})

FirstKeys(keys, cap) ==
    LET firsts == FirstOfEachKey(keys, keys, 1)
    IN  SubSeq(firsts, 1, Min(cap, Len(firsts)))

\* C13: pains whose descriptions are equal ignoring case are merged into one entry,
\* whose evidence is the evidence of all of them in chunk order and whose frequency
\* is the highest among theirs.
C13_PainsMergedByDescription ==
    MergedMany =>
        LET all == ConcatField(results, "pains")
            keys == LowerCased(all, "description")
            kept == LowerCased(merged.pains, "description")
        IN  /\ \A a, b \in DOMAIN kept : kept[a] = kept[b] => a = b
            /\ Len(kept) < PainsCap => \A k \in DOMAIN keys :
                                           \E a \in DOMAIN kept : kept[a] = keys[k]
            /\ \A a \in DOMAIN kept :
                  LET same == WithKey(all, keys, kept[a], 1)
                  IN  /\ same # <<>>
                      /\ merged.pains[a].evidence = ConcatField(same, "evidence")
                      /\ \E k \in DOMAIN same :
                            same[k].frequency = merged.pains[a].frequency
                      /\ \A k \in DOMAIN same :
                            Severity(same[k].frequency)
                                <= Severity(merged.pains[a].frequency)

C13_Witness ==
    /\ MergedMany
    /\ results[1].pains[1].frequency = "medium"
    /\ results[2].pains[1].frequency = "high"
    /\ results[1].pains[1].description # results[2].pains[1].description
    /\ Len(merged.pains) = 1
    /\ merged.pains[1].frequency = "high"
    /\ merged.pains[1].evidence = <<"B1", "A1">>

PainSet(pains) ==
    {[key |-> ToLowerCase(pains[k].description), frequency |-> pains[k].frequency,
      mentionCount |-> pains[k].mentionCount] : k \in DOMAIN pains}

PatternSet(patterns) ==
    {[key |-> ToLowerCase(patterns[k].name), occurrences |-> patterns[k].occurrences] :
        k \in DOMAIN patterns}

\* C14: merging two chunk results in either order gives the same pains (key,
\* frequency, mentionCount) and the same patterns (key, summed occurrences).
C14_MergeOrderIndependent ==
    (Merged /\ Len(results) = 2) =>
        LET swapped == mergeAnalysisResults(<<results[2], results[1]>>)
        IN  /\ PainSet(merged.pains) = PainSet(swapped.pains)
            /\ PatternSet(merged.patterns) = PatternSet(swapped.patterns)

\* the merged lists keep the first 10 pains, patterns and terms and the first 5
\* emotional patterns and hypotheses, in order of first occurrence over the chunks,
\* and at most 10 quotes
CapsKeepFirst ==
    LET terms == ConcatField(UserLanguages(results), "commonTerms")
        emotions == ConcatField(UserLanguages(results), "emotionalPatterns")
        statements == LowerCased(ConcatField(results, "hypotheses"), "statement")
    IN  /\ LowerCased(merged.pains, "description") =
              FirstKeys(LowerCased(ConcatField(results, "pains"), "description"), 10)
        /\ LowerCased(merged.patterns, "name") =
              FirstKeys(LowerCased(ConcatField(results, "patterns"), "name"), 10)
        /\ Len(merged.quotes) <= 10
        /\ merged.userLanguage.commonTerms = FirstKeys(terms, 10)
        /\ merged.userLanguage.emotionalPatterns = FirstKeys(emotions, 5)
        /\ [k \in DOMAIN merged.hypotheses |->
                SubSeq(ToLowerCase(merged.hypotheses[k].statement), 1, 100)] =
              FirstKeys([k \in DOMAIN statements |-> SubSeq(statements[k], 1, 100)], 5)

\* C15 as stated: the merged lists are capped at 10 pains, patterns, quotes and
\* terms and 5 emotional patterns and hypotheses, the first in chunk order being
\* kept, and the tone is the tone of the first chunk.
C15_CapsAndFirstTone ==
    MergedMany =>
        /\ CapsKeepFirst
        /\ merged.userLanguage.tone = results[1].userLanguage.tone

\* C15 amended: the merged lists are capped at 10 pains, patterns, quotes and terms
\* and 5 emotional patterns and hypotheses, the first in chunk order being kept; the
\* tone is the tone of the first chunk, or 'mixed' when that tone is empty.
C15_CapsAndFirstToneOrMixed ==
    MergedMany =>
        /\ CapsKeepFirst
        /\ merged.userLanguage.tone =
              (IF results[1].userLanguage.tone = "" THEN "mixed"
               ELSE results[1].userLanguage.tone)

C15_Witness ==
    /\ MergedMany
    /\ Len(FirstOfEachKey(ConcatField(results, "pains"),
                          LowerCased(ConcatField(results, "pains"), "description"),
                          1)) > 10
    /\ Len(merged.pains) = 10
    /\ Len(merged.hypotheses) = 5
    /\ Len(merged.userLanguage.emotionalPatterns) = 5
    /\ results[1].userLanguage.tone = ""
    /\ results[2].userLanguage.tone # ""
    /\ merged.userLanguage.tone = "mixed"

\* C16: patterns whose names are equal ignoring case are merged into one entry,
\* whose occurrences are the sum of theirs; other names stay apart.
C16_PatternsMergedByName ==
    MergedMany =>
        LET all == ConcatField(results, "patterns")
            keys == LowerCased(all, "name")
            kept == LowerCased(merged.patterns, "name")
        IN  /\ \A a, b \in DOMAIN kept : kept[a] = kept[b] => a = b
            /\ Len(kept) < PatternsCap =>
                  {kept[a] : a \in DOMAIN kept} = {keys[k] : k \in DOMAIN keys}
            /\ \A a \in DOMAIN kept :
                  merged.patterns[a].occurrences =
                      SumOccurrences(WithKey(all, keys, kept[a], 1))

C16_Witness ==
    /\ MergedMany
    /\ Len(results[1].patterns) = 1
    /\ Len(results[2].patterns) > 1
    /\ results[1].patterns[1].name # results[2].patterns[1].name
    /\ Len(merged.patterns) = Len(results[2].patterns)
    /\ merged.patterns[1].occurrences =
          results[1].patterns[1].occurrences + results[2].patterns[1].occurrences
    /\ merged.patterns[2].occurrences = results[2].patterns[2].occurrences

\* C17: the merged quotes are the min(10, total) highest-scoring quotes of all the
\* chunks, highest score first, a quote counted as often as it occurs.
C17_TopQuotesByScore ==
    MergedMany =>
        LET all == ConcatField(results, "quotes")
            top == merged.quotes
        IN  /\ Len(top) = (IF Len(all) < 10 THEN Len(all) ELSE 10)
            /\ \A k \in 1..(Len(top) - 1) : top[k].score >= top[k + 1].score
            /\ \A k \in DOMAIN top : Count(top, top[k]) <= Count(all, top[k])
            /\ \A k \in DOMAIN all :
                  Count(top, all[k]) < Count(all, all[k]) =>
                      \A j \in DOMAIN top : top[j].score >= all[k].score

C17_Witness ==
    /\ MergedMany
    /\ Len(ConcatField(results, "quotes")) > 10
    /\ Len(merged.quotes) = 10
    /\ merged.quotes[1] = merged.quotes[2]
    /\ merged.quotes[1].score > merged.quotes[10].score

\* C18: of the hypotheses whose statements have the same first 100 characters
\* ignoring case only the first in chunk order is kept; the others are all kept, in
\* order of first occurrence, and the list is cut to its first 5.
C18_HypothesesByStatementPrefix ==
    MergedMany =>
        LET all == ConcatField(results, "hypotheses")
            keys == [k \in DOMAIN all |->
                        SubSeq(ToLowerCase(all[k].statement), 1,
                               Min(100, Len(all[k].statement)))]
            firsts == FirstOfEachKey(all, keys, 1)
        IN  merged.hypotheses = SubSeq(firsts, 1, Min(5, Len(firsts)))

C18_Witness ==
    /\ MergedMany
    /\ Len(results[1].hypotheses) = 1
    /\ results[1].hypotheses[1].statement # results[2].hypotheses[1].statement
    /\ ToLowerCase(results[1].hypotheses[1].statement)
          # ToLowerCase(results[2].hypotheses[1].statement)
    /\ Len(results[2].hypotheses) > 5
    /\ Len(merged.hypotheses) = 5
    /\ merged.hypotheses[1] = results[1].hypotheses[1]
    /\ merged.hypotheses[2] = results[2].hypotheses[2]

\* the pains and patterns the maps hold when the loops end are the ones merged
\* by value
HeapAgreesWithMerge ==
    (llmPc = "merge" /\ Len(results) >= 2) =>
        /\ MergedOnHeap(results).pains = MapValues(MergePains(<<>>, results))
        /\ MergedOnHeap(results).patterns = MapValues(MergePatterns(<<>>, results))

\* C37: a call of mergeAnalysisResults with two or more chunk results leaves every
\* input as it was: the pains with their descriptions, frequencies and evidence, the
\* patterns with their occurrences, the quotes in their order, the userLanguage and
\* the hypotheses of each input are after the call what they were before it.
C37_InputsUnchanged ==
    [][(llmPc = "merge" /\ Len(results) >= 2) => results' = results]_vars

\* two results share a pain and a pattern: the merged pain has the evidence of both
\* and the higher frequency, the merged pattern the sum of the occurrences, and the
\* merged quotes are in another order than the first result's
C37_Witness ==
    /\ MergedMany
    /\ \E i \in DOMAIN results[1].pains, k \in DOMAIN merged.pains :
          /\ merged.pains[k].description = results[1].pains[i].description
          /\ Len(merged.pains[k].evidence) = 2
          /\ Len(results[1].pains[i].evidence) = 1
          /\ results[1].pains[i].frequency = "low"
          /\ merged.pains[k].frequency = "high"
    /\ \E i \in DOMAIN results[1].patterns, k \in DOMAIN merged.patterns :
          /\ merged.patterns[k].name = results[1].patterns[i].name
          /\ merged.patterns[k].occurrences > results[1].patterns[i].occurrences
    /\ Len(results[1].quotes) > 1
    /\ merged.quotes[1] # results[1].quotes[1]

\* ============================================================ src/llm.ts
\* parseAnalysisResponse.  A text is the sequence of its characters.  Backtick
\* stands for the character U+0060, which a string of this language cannot hold.

Backtick == "<backtick>"
Quote == "\""

\* the characters of a string that holds no backtick
Chars(s) == [k \in 1..Len(s) |-> SubSeq(s, k, k)]

\* the white space and line terminators of String.prototype.trim that the texts
\* here hold; they are also the white space of JSON
WhiteSpace == {" ", "\n", "\t", "\r"}

RECURSIVE TrimStart(_)
TrimStart(str) ==
    IF str # <<>> /\ Head(str) \in WhiteSpace THEN TrimStart(Tail(str)) ELSE str

RECURSIVE TrimEnd(_)
TrimEnd(str) ==
    IF str # <<>> /\ str[Len(str)] \in WhiteSpace
       THEN TrimEnd(SubSeq(str, 1, Len(str) - 1))
       ELSE str

\* str.trim()
Trim(str) == TrimEnd(TrimStart(str))

\* str.startsWith(prefix), str.endsWith(suffix)
StartsWith(str, prefix) ==
    Len(str) >= Len(prefix) /\ SubSeq(str, 1, Len(prefix)) = prefix
EndsWith(str, suffix) ==
    Len(str) >= Len(suffix)
        /\ SubSeq(str, Len(str) - Len(suffix) + 1, Len(str)) = suffix

\* str.slice(n), str.slice(0, -n)
SliceFrom(str, n) == SubSeq(str, n + 1, Len(str))
SliceLast(str, n) == SubSeq(str, 1, Max(Len(str) - n, 0))

Fence == <<Backtick, Backtick, Backtick>>
JsonFence == Fence \o Chars("json")

\* l.277-288: the text handed to JSON.parse
StripFence(text) ==
    LET trimmed == Trim(text)
        opened == IF StartsWith(trimmed, JsonFence) THEN SliceFrom(trimmed, 7)
                  ELSE IF StartsWith(trimmed, Fence) THEN SliceFrom(trimmed, 3)
                  ELSE trimmed
        closed == IF EndsWith(opened, Fence) THEN SliceLast(opened, 3) ELSE opened
    IN  Trim(closed)

\* ------------------------------------------------------------ JSON.parse
\* A parsed value is [kind, v]: kind is the type JavaScript gives the value and v
\* what it holds (the members of an object in source order, the items of an array,
\* the characters of a string, a natural number, a boolean).  The texts here hold
\* no escape, sign, fraction or exponent.  A parser step answers [ok, v, i]: i is
\* the place after what it read.

Undefined == [kind |-> "undefined", v |-> <<>>]
ParseFail == [ok |-> FALSE, v |-> Undefined, i |-> 0]
Parsed(v, i) == [ok |-> TRUE, v |-> v, i |-> i]

RECURSIVE SkipWhiteSpace(_, _)
SkipWhiteSpace(t, i) ==
    IF i <= Len(t) /\ t[i] \in WhiteSpace THEN SkipWhiteSpace(t, i + 1) ELSE i

\* the closing quote of the string whose first character is at i, 0 if none
RECURSIVE ClosingQuote(_, _)
ClosingQuote(t, i) ==
    IF i > Len(t) \/ t[i] \in {"\n", "\t", "\r", "\\"} THEN 0
    ELSE IF t[i] = Quote THEN i
    ELSE ClosingQuote(t, i + 1)

JsonString(t, i) ==
    LET j == ClosingQuote(t, i + 1)
    IN  IF j = 0 THEN ParseFail
        ELSE Parsed([kind |-> "string", v |-> SubSeq(t, i + 1, j - 1)], j + 1)

RECURSIVE JsonDigits(_, _, _)
JsonDigits(t, i, n) ==
    IF i <= Len(t) /\ t[i] \in Digits
       THEN JsonDigits(t, i + 1, 10 * n + DigitValue(t[i]))
       ELSE Parsed([kind |-> "number", v |-> n], i)

\* no digit may follow a leading 0
JsonNumber(t, i) ==
    IF t[i] = "0"
       THEN IF i < Len(t) /\ t[i + 1] \in Digits THEN ParseFail
            ELSE Parsed([kind |-> "number", v |-> 0], i + 1)
       ELSE JsonDigits(t, i, 0)

JsonLiteral(t, i, word, value) ==
    IF SubSeq(t, i, Min(i + Len(word) - 1, Len(t))) = Chars(word)
       THEN Parsed(value, i + Len(word))
       ELSE ParseFail

RECURSIVE JsonValue(_, _)
RECURSIVE JsonItems(_, _, _)
RECURSIVE JsonMembers(_, _, _)

\* the items of an array from i on, after the items read so far
JsonItems(t, i, items) ==
    LET item == JsonValue(t, SkipWhiteSpace(t, i))
        j == SkipWhiteSpace(t, item.i)
    IN  IF ~item.ok \/ j > Len(t) THEN ParseFail
        ELSE IF t[j] = "]"
                THEN Parsed([kind |-> "array", v |-> Append(items, item.v)], j + 1)
        ELSE IF t[j] = "," THEN JsonItems(t, j + 1, Append(items, item.v))
        ELSE ParseFail

\* the members of an object from i on, after the members read so far
JsonMembers(t, i, members) ==
    LET k == SkipWhiteSpace(t, i)
        key == IF k <= Len(t) /\ t[k] = Quote THEN JsonString(t, k) ELSE ParseFail
        colon == SkipWhiteSpace(t, key.i)
        value == IF key.ok /\ colon <= Len(t) /\ t[colon] = ":"
                    THEN JsonValue(t, SkipWhiteSpace(t, colon + 1))
                    ELSE ParseFail
        j == SkipWhiteSpace(t, value.i)
        read == Append(members, [key |-> key.v.v, value |-> value.v])
    IN  IF ~value.ok \/ j > Len(t) THEN ParseFail
        ELSE IF t[j] = "}" THEN Parsed([kind |-> "object", v |-> read], j + 1)
        ELSE IF t[j] = "," THEN JsonMembers(t, j + 1, read)
        ELSE ParseFail

\* the value whose first character is at i
JsonValue(t, i) ==
    IF i > Len(t) THEN ParseFail
    ELSE IF t[i] = "{"
            THEN LET j == SkipWhiteSpace(t, i + 1)
                 IN  IF j <= Len(t) /\ t[j] = "}"
                        THEN Parsed([kind |-> "object", v |-> <<>>], j + 1)
                        ELSE JsonMembers(t, i + 1, <<>>)
    ELSE IF t[i] = "["
            THEN LET j == SkipWhiteSpace(t, i + 1)
                 IN  IF j <= Len(t) /\ t[j] = "]"
                        THEN Parsed([kind |-> "array", v |-> <<>>], j + 1)
                        ELSE JsonItems(t, i + 1, <<>>)
    ELSE IF t[i] = Quote THEN JsonString(t, i)
    ELSE IF t[i] \in Digits THEN JsonNumber(t, i)
    ELSE IF t[i] = "t" THEN JsonLiteral(t, i, "true", [kind |-> "boolean", v |-> TRUE])
    ELSE IF t[i] = "f"
            THEN JsonLiteral(t, i, "false", [kind |-> "boolean", v |-> FALSE])
    ELSE IF t[i] = "n" THEN JsonLiteral(t, i, "null", [kind |-> "null", v |-> <<>>])
    ELSE ParseFail

\* JSON.parse(text): one value and nothing but white space around it, or a
\* SyntaxError
JsonParse(text) ==
    LET value == JsonValue(text, SkipWhiteSpace(text, 1))
    IN  IF value.ok /\ SkipWhiteSpace(text, value.i) = Len(text) + 1
           THEN value
           ELSE ParseFail

\* value[name]: of an object the member written last under that name, of another
\* value but null and undefined nothing
RECURSIVE Member(_, _)
Member(members, name) ==
    IF members = <<>> THEN Undefined
    ELSE IF members[Len(members)].key = name THEN members[Len(members)].value
    ELSE Member(SubSeq(members, 1, Len(members) - 1), name)

Prop(value, name) ==
    IF value.kind = "object" THEN Member(value.v, Chars(name)) ELSE Undefined

\* Array.isArray(value)
IsArray(value) == value.kind = "array"

\* whether value || other is value
Truthy(value) ==
    CASE value.kind \in {"undefined", "null"} -> FALSE
      [] value.kind = "boolean" -> value.v
      [] value.kind = "number" -> value.v # 0
      [] value.kind = "string" -> value.v # <<>>
      [] OTHER -> TRUE

RECURSIVE JoinChars(_)
JoinChars(str) == IF str = <<>> THEN "" ELSE Head(str) \o JoinChars(Tail(str))

\* a parsed value as the rest of this module holds it: an object is a record, an
\* array a sequence, a string the sequence of its characters
RECURSIVE Native(_)
Native(value) ==
    CASE value.kind = "object" ->
            [name \in {JoinChars(value.v[k].key) : k \in DOMAIN value.v} |->
                Native(Member(value.v, Chars(name)))]
      [] value.kind = "array" -> [k \in DOMAIN value.v |-> Native(value.v[k])]
      [] value.kind \in {"null", "undefined"} -> Null
      [] OTHER -> value.v

\* l.297: the userLanguage of a reply that has none
NoUserLanguage == [commonTerms |-> <<>>, tone |-> "unknown", emotionalPatterns |-> <<>>]

Threw(error) == [threw |-> error, analysis |-> NoAnalysis]

ArrayOrEmpty(value) == IF IsArray(value) THEN Native(value) ELSE <<>>

\* what parseAnalysisResponse returns, or the error it throws: JSON.parse throws a
\* SyntaxError, reading a property of null a TypeError
parseAnalysisResponse(text) ==
    LET json == JsonParse(StripFence(text))
    IN  IF ~json.ok THEN Threw("SyntaxError")
        ELSE IF json.v.kind = "null" THEN Threw("TypeError")
        ELSE [threw |-> "",
              analysis |->
                [pains |-> ArrayOrEmpty(Prop(json.v, "pains")),
                 patterns |-> ArrayOrEmpty(Prop(json.v, "patterns")),
                 quotes |-> ArrayOrEmpty(Prop(json.v, "quotes")),
                 userLanguage |->
                    IF Truthy(Prop(json.v, "userLanguage"))
                       THEN Native(Prop(json.v, "userLanguage"))
                       ELSE NoUserLanguage,
                 hypotheses |-> ArrayOrEmpty(Prop(json.v, "hypotheses"))]]

\* ------------------------------------------------------ the replies

\* the white space the model puts around a fence: up to MaxPad characters
MaxPad == 1

\* what the model writes as its analysis
JsonTexts ==
    {Chars("{}"),
     Chars("{\"pains\": [{\"description\": \"Slow app\", \"frequency\": \"high\", \"evidence\": [\"e1\"]}], \"quotes\": [{\"text\": \"q\", \"score\": 12}]}"),
     Chars("{\"patterns\":[{\"name\":\"Workaround\",\"occurrences\":3}],\n \"userLanguage\":{\"commonTerms\":[\"t\"],\"tone\":\"enthusiastic\",\"emotionalPatterns\":[]},\n \"hypotheses\":[{\"statement\":\"Users who X\",\"confidence\":\"low\",\"supportingEvidence\":[]}]}"),
     Chars("{\"pains\": null, \"patterns\": {}, \"userLanguage\": 0, \"tldr\": \"none\"}"),
     Chars("{\"pains\": [}"),
     Chars("null")}

\* how the model opens the fence: "none" is a reply without a fence, "" a fence
\* without a language tag
FenceTags == {"none", "", "json", "JSON", "js"}

Pads == {[k \in 1..n |-> c] : n \in 0..MaxPad, c \in {" ", "\n"}}

\* the analysis in a fence with this tag, with white space before the fence, after
\* the tag, before the closing fence and after it
Fenced(text, tag, pad) ==
    IF tag = "none" THEN pad[1] \o text \o pad[4]
    ELSE pad[1] \o Fence \o Chars(tag) \o pad[2] \o text \o pad[3] \o Fence \o pad[4]

ParseInit ==
    /\ RedditIdle
    /\ AuthIdle
    /\ redditData = NoData
    /\ chunks = <<>>
    /\ results = <<>>
    /\ merged = NoAnalysis
    /\ jsonText \in JsonTexts
    /\ fenceTag \in FenceTags
    /\ \E pad \in [1..4 -> Pads] :
          /\ fenceTag = "none" => pad[2] = <<>> /\ pad[3] = <<>>
          /\ response = Fenced(jsonText, fenceTag, pad)
    /\ parsed = Threw("")
    /\ AnalyzeIdle
    /\ llmPc = "parse"

ParseAnalysisResponse ==
    /\ llmPc = "parse"
    /\ parsed' = parseAnalysisResponse(response)
    /\ llmPc' = "parsed"
    /\ UNCHANGED <<redditVars, authVars, serverVars, redditData, chunks, results, merged, response,
                   jsonText, fenceTag, analyzeVars>>

ParseNext == ParseAnalysisResponse

ParseSpec == ParseInit /\ [][ParseNext]_vars

\* ------------------------------------------------------------------ claim

\* the reply was parsed and the analysis in it was in a fence
ParsedFenced == llmPc = "parsed" /\ fenceTag # "none"

\* C19: a JSON analysis text in a triple-backtick fence, whose opening fence has a
\* language tag or none, with a closing fence at the end and white space around,
\* parses to the same AnalysisResult as the text without the fence.
C19_FencedParsesAsUnwrapped ==
    ParsedFenced =>
        /\ parsed.threw = parseAnalysisResponse(jsonText).threw
        /\ parsed.analysis = parseAnalysisResponse(jsonText).analysis

\* ============================================================ src/llm.ts
\* analyzeWithLLM.  The function runs up to its first request, and again from
\* each answer of the model up to the next request or to its return.

ApiKeys == {"", "sk-ant-test"}

\* client.messages.create rejects with an Error of this message, or with a value
\* that is no Error (Null)
Rejections == {"API rate limit exceeded", Null}

\* the text blocks the model answers with
ReplyTexts ==
    {Chars("{\"pains\": [{\"description\": \"Slow app\", \"frequency\": \"high\", \"evidence\": [\"e1\"]}, {\"description\": \"slow app\", \"frequency\": \"low\", \"evidence\": [\"e2\"]}], \"quotes\": [{\"text\": \"q\", \"score\": 12}, {\"text\": \"r\", \"score\": 40}]}"),
     Fenced(Chars("{\"patterns\":[{\"name\":\"Workaround\",\"occurrences\":3}],\"quotes\":[{\"text\":\"r\",\"score\":40}]}"),
            "json", [k \in 1..4 |-> <<"\n">>]),
     Chars("{ invalid json }"),
     Fenced(Chars("{}"), "JSON", [k \in 1..4 |-> <<"\n">>]),
     Chars("null"),
     Chars("{\"pains\": [{\"frequency\": \"high\", \"evidence\": []}], \"patterns\": 3}"),
     Chars("{\"userLanguage\": {\"tone\": \"calm\"}}")}

Rejected(error) == [kind |-> "rejected", text |-> <<>>, error |-> error]
WithoutText == [kind |-> "no text", text |-> <<>>, error |-> Null]
WithText(text) == [kind |-> "text", text |-> text, error |-> Null]

\* l.310-315
NoApiKey ==
    <<"ANTHROPIC_API_KEY environment variable is not set. Please set it to use LLM analysis.">>

\* l.360-366: what the catch block returns for a thrown Error of this message, or
\* for a thrown value that is no Error
ClaudeApiError(message) ==
    <<"Claude API error: ", IF message = Null THEN "Unknown API error" ELSE message>>

FailureOfTheCallOnly(reply) ==
    IF reply.kind = "rejected" THEN ClaudeApiError(reply.error) ELSE <<>>

\* l.337-366: the error the body of the loop returns for this answer of the model;
\* none when it pushed an analysis.  The message of what parseAnalysisResponse
\* throws is the name of the error.
LoopFailure(reply) ==
    CASE reply.kind = "rejected" -> ClaudeApiError(reply.error)
      [] reply.kind = "no text" -> <<"Unexpected response format from Claude API">>
      [] OTHER ->
            IF parseAnalysisResponse(reply.text).threw # ""
               THEN ClaudeApiError(parseAnalysisResponse(reply.text).threw)
               ELSE <<>>

AnalyzeInit ==
    /\ RedditIdle
    /\ AuthIdle
    /\ \E n \in 0..MaxPosts :
          \E texts \in [1..n -> Selftexts] :
              redditData = Corpus(texts, [k \in 1..n |-> <<Comment>>])
    /\ chunks = <<>>
    /\ results = <<>>
    /\ merged = NoAnalysis
    /\ ParseIdle
    /\ apiKey \in ApiKeys
    /\ chunkIndex = 0
    /\ requests = <<>>
    /\ replies = <<>>
    /\ analyzeResult = NotReturned
    /\ fullText = <<>>
    /\ llmPc = "analyze"

\* the prompt is for a part of the corpus
AlwaysPartialChunk(totalChunks) == TRUE

\* l.327: isPartialChunk
IsPartialChunk(totalChunks) == totalChunks > 1

\* l.328: chunkInfo, for the chunk of index i
ChunkInfo(i, totalChunks) ==
    "chunk " \o ToString(i + 1) \o " of " \o ToString(totalChunks)

\* l.151-153: chunkNote
ChunkNote(isPartialChunk, chunkInfo) ==
    IF isPartialChunk
       THEN "\n\nNote: This is " \o chunkInfo
                \o ". Focus on extracting insights from this portion."
       ELSE ""

\* l.150-187: the prompt, of which the note and the text are kept; the rest of it is
\* the same in every prompt
buildAnalysisPrompt(text, isPartialChunk, chunkInfo) ==
    [chunkNote |-> ChunkNote(isPartialChunk, chunkInfo), text |-> text]

\* l.325-347: the request for the chunk of index i
Request(cs, i) ==
    [chunk |-> i,
     content |-> buildAnalysisPrompt(dataToText(cs[i + 1]), IsPartialChunk(Len(cs)),
                                     ChunkInfo(i, Len(cs)))]

\* l.306-347: from the call to the first request
AnalyzeWithLLM ==
    /\ llmPc = "analyze"
    /\ IF apiKey = ""
          THEN /\ analyzeResult' = [success |-> FALSE, error |-> NoApiKey]
               /\ llmPc' = "returned"
               /\ UNCHANGED <<chunks, requests>>
          ELSE /\ chunks' = chunkData(redditData)
               /\ requests' = <<Request(chunks', 0)>>
               /\ llmPc' = "awaiting"
               /\ UNCHANGED analyzeResult
    /\ UNCHANGED <<redditVars, authVars, serverVars, redditData, results, merged, response, jsonText,
                   fenceTag, parsed, apiKey, chunkIndex, replies, fullText>>

\* l.192-259: whether mergeAnalysisResults throws a TypeError on results whose
\* entries are objects: it reads description.toLowerCase() and spreads evidence of
\* every pain, reads name.toLowerCase() of every pattern and
\* statement.toLowerCase() of every hypothesis, and calls forEach on commonTerms
\* and emotionalPatterns; it does none of this for a single result (l.193-195)
MergeThrows(rs) ==
    /\ Len(rs) # 1
    /\ \E k \in DOMAIN rs :
          \/ \E p \in DOMAIN rs[k].pains :
                ~({"description", "evidence"} \subseteq DOMAIN rs[k].pains[p])
          \/ \E p \in DOMAIN rs[k].patterns : "name" \notin DOMAIN rs[k].patterns[p]
          \/ ~({"commonTerms", "emotionalPatterns"} \subseteq DOMAIN rs[k].userLanguage)
          \/ \E h \in DOMAIN rs[k].hypotheses :
                "statement" \notin DOMAIN rs[k].hypotheses[h]

\* analyzeWithLLM threw: its promise is rejected with this error
Thrown(error) == [rejected |-> error]

\* what client.messages.create ends with: it throws, or the message has no text
\* block, or it has one
Replies ==
    {Rejected(error) : error \in Rejections}
        \cup {WithoutText}
        \cup {WithText(text) : text \in ReplyTexts}

\* l.349-377 and l.325-347: from an answer of the model to the next request, or to
\* the return
MessageCreated ==
  \E reply \in Replies :
    LET failure == LoopFailure(reply)
        pushed == Append(results, parseAnalysisResponse(reply.text).analysis)
    IN  /\ llmPc = "awaiting"
        /\ replies' = Append(replies, reply)
        /\ IF reply.kind = "text"
              THEN /\ response' = reply.text
                   /\ parsed' = parseAnalysisResponse(reply.text)
              ELSE UNCHANGED <<response, parsed>>
        /\ IF failure # <<>>
              THEN /\ analyzeResult' = [success |-> FALSE, error |-> failure]
                   /\ llmPc' = "returned"
                   /\ UNCHANGED <<results, chunkIndex, requests, merged>>
              ELSE /\ results' = pushed
                   /\ chunkIndex' = chunkIndex + 1
                   /\ IF chunkIndex + 1 < Len(chunks)
                         THEN /\ requests' =
                                    Append(requests, Request(chunks, chunkIndex + 1))
                              /\ UNCHANGED <<merged, analyzeResult, llmPc>>
                         ELSE IF MergeThrows(pushed)
                         THEN /\ analyzeResult' = Thrown("TypeError")
                              /\ llmPc' = "threw"
                              /\ UNCHANGED <<merged, requests>>
                         ELSE /\ merged' = mergeAnalysisResults(pushed)
                              /\ analyzeResult' =
                                    [success |-> TRUE,
                                     analysis |-> mergeAnalysisResults(pushed)]
                              /\ llmPc' = "returned"
                              /\ UNCHANGED requests
        /\ UNCHANGED <<redditVars, authVars, serverVars, redditData, chunks, jsonText, fenceTag, apiKey,
                       fullText>>

AnalyzeNext ==
    \/ AnalyzeWithLLM
    \/ MessageCreated

AnalyzeSpec == AnalyzeInit /\ [][AnalyzeNext]_vars

\* ------------------------------------------------------------------ claim

\* the call failed, the message had no text block, or its text did not parse
FailedReply(reply) ==
    \/ reply.kind \in {"rejected", "no text"}
    \/ parseAnalysisResponse(reply.text).threw # ""

AnalyzeReturned == llmPc = "returned"

\* C20: when for some chunk the call fails, the answer has no text block or its
\* text does not parse, analyzeWithLLM returns a failure: that chunk is the last
\* one sent, nothing is merged and no analysis is returned; a success has one
\* analysis for every chunk, parsed from the answer to that chunk.
C20_AnyChunkFailureFailsAll ==
    /\ \A k \in DOMAIN replies :
          FailedReply(replies[k]) =>
              /\ AnalyzeReturned
              /\ analyzeResult.success = FALSE
              /\ analyzeResult.error # <<>>
              /\ "analysis" \notin DOMAIN analyzeResult
              /\ merged = NoAnalysis
              /\ k = Len(replies)
              /\ Len(requests) = k
    /\ (AnalyzeReturned /\ analyzeResult.success) =>
          /\ [k \in DOMAIN requests |-> requests[k].chunk]
                = [k \in 1..Len(chunks) |-> k - 1]
          /\ Len(replies) = Len(chunks)
          /\ results = [k \in 1..Len(chunks) |->
                           parseAnalysisResponse(replies[k].text).analysis]
          /\ analyzeResult.analysis = mergeAnalysisResults(results)

\* the answer to the second of three chunks did not parse
C20_Witness ==
    /\ AnalyzeReturned
    /\ Len(chunks) = 3
    /\ Len(replies) = 2
    /\ ~FailedReply(replies[1])
    /\ replies[2].kind = "text"
    /\ FailedReply(replies[2])
    /\ Len(results) = 1
    /\ ~analyzeResult.success

\* analyzeWithLLM returned a success for a corpus of one chunk
SingleChunkSuccess ==
    /\ AnalyzeReturned
    /\ analyzeResult.success
    /\ Len(chunks) = 1

\* C38: for a corpus of exactly one chunk analyzeWithLLM returns what
\* parseAnalysisResponse made of the answer to that chunk, as it is: nothing is
\* merged, put in order or cut to a cap; and the prompt of the one request carries
\* no 'chunk i of N' note.
C38_SingleChunkReturnedAsParsed ==
    /\ SingleChunkSuccess =>
          /\ Len(replies) = 1
          /\ analyzeResult.analysis = parseAnalysisResponse(replies[1].text).analysis
          /\ merged = analyzeResult.analysis
    /\ Len(chunks) = 1 =>
          \A k \in DOMAIN requests : requests[k].content.chunkNote = ""

\* the answer to the one chunk has the same pain twice, in two spellings, and two
\* quotes in ascending order of score: both pains are returned, with the quotes in
\* the order they came
C38_Witness ==
    /\ SingleChunkSuccess
    /\ Len(requests) = 1
    /\ requests[1].content.chunkNote = ""
    /\ Len(analyzeResult.analysis.pains) = 2
    /\ ToLowerCase(analyzeResult.analysis.pains[1].description)
          = ToLowerCase(analyzeResult.analysis.pains[2].description)
    /\ Len(analyzeResult.analysis.quotes) = 2
    /\ analyzeResult.analysis.quotes[1].score < analyzeResult.analysis.quotes[2].score

\* analyzeWithLLM is over: its promise is settled
AnalyzeSettled == llmPc \in {"returned", "threw"}

\* C21: analyzeWithLLM never throws: for every answer of the model, for one chunk
\* and for several, its promise resolves to a success with an analysis or to a
\* failure with an error; fields that are missing or no arrays are empty lists.
C21_AnalyzeNeverThrows ==
    /\ AnalyzeSettled =>
          /\ llmPc = "returned"
          /\ "success" \in DOMAIN analyzeResult
          /\ IF analyzeResult.success
                THEN DOMAIN analyzeResult = {"success", "analysis"}
                ELSE DOMAIN analyzeResult = {"success", "error"}
    /\ \A k \in DOMAIN results :
          \A field \in {"pains", "patterns", "quotes", "hypotheses"} :
              LET json == JsonParse(StripFence(replies[k].text))
              IN  ~IsArray(Prop(json.v, field)) => results[k][field] = <<>>

\* ============================================================ src/llm.ts
\* dataToText on corpora whose comments are nested, empty, deleted and removed.

\* comment.body: a body, none, and the two marks of a comment that is gone
Bodies == [ok |-> Run("body", 25), empty |-> Str(""), deleted |-> Str("[deleted]"),
           removed |-> Str("[removed]")]

\* the j-th comment of a tree, as parseComment leaves it
TreeComment(j, body, answers) ==
    [id |-> "c" \o ToString(j), body |-> Bodies[body],
     author |-> Str("user" \o ToString(j)), score |-> 10 * j, replies |-> answers]

\* no comment; a thread three deep whose middle comment is deleted; three siblings,
\* the first without body and the last removed; a removed comment with two replies;
\* a comment with a reply and a sibling
TextTrees ==
    {<<>>,
     <<TreeComment(1, "ok", <<TreeComment(2, "deleted",
                                          <<TreeComment(3, "ok", <<>>)>>)>>)>>,
     <<TreeComment(4, "empty", <<>>), TreeComment(5, "ok", <<>>),
       TreeComment(6, "removed", <<>>)>>,
     <<TreeComment(7, "removed", <<TreeComment(8, "ok", <<>>),
                                   TreeComment(9, "ok", <<>>)>>)>>,
     <<TreeComment(10, "ok", <<TreeComment(11, "ok", <<>>)>>),
       TreeComment(12, "ok", <<>>)>>}

TextInit ==
    /\ RedditIdle
    /\ AuthIdle
    /\ \E n \in 0..MaxPosts :
          \E trees \in [1..n -> TextTrees] :
              redditData = Corpus([k \in 1..n |->
                                      IF k = 2 THEN Str("") ELSE Run("text", 40)],
                                  trees)
    /\ chunks = <<>>
    /\ results = <<>>
    /\ merged = NoAnalysis
    /\ ParseIdle
    /\ AnalyzeIdle
    /\ llmPc = "text"

DataToText ==
    /\ llmPc = "text"
    /\ fullText' = dataToText(redditData)
    /\ llmPc' = "texted"
    /\ UNCHANGED <<redditVars, authVars, serverVars, redditData, chunks, results, merged, response,
                   jsonText, fenceTag, parsed, apiKey, chunkIndex, requests, replies,
                   analyzeResult>>

TextNext == DataToText

TextSpec == TextInit /\ [][TextNext]_vars

\* ------------------------------------------------------------------ claim

Texted == llmPc = "texted"

\* the comments of a forest in depth-first pre-order, walked with a stack: the
\* comment on top is listed and its replies are put on the stack in its place
RECURSIVE PreOrderWalk(_, _)
PreOrderWalk(stack, listed) ==
    IF stack = <<>> THEN listed
    ELSE PreOrderWalk(Head(stack).replies \o Tail(stack), Append(listed, Head(stack)))

\* whether the comment is gone or has no body
Omitted(comment) == comment.body \in {Bodies.empty, Bodies.deleted, Bodies.removed}

\* the line of a comment: author, score and body
ListedAs(comment) ==
    <<Str("> ["), comment.author, Str(", score: "), Str(ToString(comment.score)),
      Str("]: "), comment.body>>

\* the lines of the comments of a walk that are not omitted
RECURSIVE Kept(_)
Kept(walk) ==
    IF walk = <<>> THEN <<>>
    ELSE IF Omitted(Head(walk)) THEN Kept(Tail(walk))
    ELSE <<ListedAs(Head(walk))>> \o Kept(Tail(walk))

\* the lines of a post: its header, and its comments between two empty lines
PostSection(post, tree) ==
    << <<Str("## Post: "), post.title>>,
       <<Str("Score: "), Str(ToString(post.score)), Str(" | Comments: "),
         Str(ToString(post.numComments)), Str(" | Author: "), post.author>> >>
    \o (IF post.selftext = Str("") THEN <<>>
        ELSE << <<Str("Content: "), post.selftext>> >>)
    \o << <<>> >> \o Kept(PreOrderWalk(tree, <<>>)) \o << <<>>, <<Str("---")>>, <<>> >>

RECURSIVE PostSections(_, _)
PostSections(d, k) ==
    IF k > Len(d.posts) THEN <<>>
    ELSE PostSection(d.posts[k], d.comments[d.posts[k].id]) \o PostSections(d, k + 1)

\* how many lines of the text are this line
Occurrences(lines, line) == Cardinality({k \in DOMAIN lines : lines[k] = line})

\* C22: the text lists the posts in order, and after the header of each post the
\* comments of its tree in depth-first pre-order, each once with author and score,
\* but for those without body, deleted or removed, whose replies are listed all
\* the same; the text of the same corpus is the same again.
C22_CommentsInPreOrder ==
    Texted =>
        /\ SubSeq(fullText, 4, Len(fullText)) = PostSections(redditData, 1)
        /\ \A k \in DOMAIN redditData.posts :
              LET walk == PreOrderWalk(redditData.comments[redditData.posts[k].id],
                                       <<>>)
              IN  \A j \in DOMAIN walk :
                      Occurrences(PostSection(redditData.posts[k],
                                      redditData.comments[redditData.posts[k].id]),
                                  ListedAs(walk[j]))
                          = IF Omitted(walk[j]) THEN 0 ELSE 1
        /\ dataToText(redditData) = fullText

\* a post whose deleted comment has a reply, after a post whose removed comment has
\* two
C22_Witness ==
    /\ Texted
    /\ Len(redditData.posts) >= 2
    /\ redditData.comments["p1"] # <<>>
    /\ redditData.comments["p2"] # <<>>
    /\ redditData.comments["p1"][1].id = "c7"
    /\ redditData.comments["p2"][1].id = "c1"
    /\ \E k \in DOMAIN fullText :
          /\ k + 9 <= Len(fullText)
          /\ fullText[k] = ListedAs(TreeComment(8, "ok", <<>>))
          /\ fullText[k + 1] = ListedAs(TreeComment(9, "ok", <<>>))
          /\ fullText[k + 8] = ListedAs(redditData.comments["p2"][1])
          /\ fullText[k + 9] = ListedAs(TreeComment(3, "ok", <<>>))

\* ==================================================== src/app-only-auth.ts
\* AppOnlyTokenManager.  Time is counted in seconds, Date.now() being 1000 * clock:
\* every duration of the code is a whole number of seconds.  It passes a minute at
\* a time.
\* A call of getAccessToken runs to its await of fetch and goes on when fetch
\* settles; other calls may come in between.

Minute == 60

\* isAppOnlyTokenExpired: bufferMs = 5 * 60 * 1000, in seconds
TokenBufferSeconds == 300

\* minutes the clock runs, and calls made on the manager
MaxClock == 2
MaxOps == 3

isAppOnlyTokenExpiredWhenPast(token, t) == t > token.expiresAt - TokenBufferSeconds

\* isAppOnlyTokenExpired(token) at Date.now() = t
isAppOnlyTokenExpired(token, t) == t >= token.expiresAt - TokenBufferSeconds

\* what the token endpoint answers: a token that lives 6 minutes, an error, a
\* status without error in its body, or fetch throws
TokenAnswers ==
    {[type |-> "response", ok |-> TRUE, status |-> 200, error |-> Null, expiresIn |-> 360],
     [type |-> "response", ok |-> FALSE, status |-> 401, error |-> "invalid_grant",
      expiresIn |-> 0],
     [type |-> "response", ok |-> FALSE, status |-> 500, error |-> Null, expiresIn |-> 0],
     [type |-> "throw", ok |-> FALSE, status |-> 0, error |-> "fetch failed",
      expiresIn |-> 0]}

TokenFailure(message) ==
    [success |-> FALSE, error |-> <<"Failed to get app-only token: ", message>>]

\* l.44-50: what getAppOnlyToken returns before any request, if it does
MissingCredential(clientId, clientSecret) ==
    IF clientId = "" THEN [success |-> FALSE, error |-> <<"Client ID is required">>]
    ELSE IF clientSecret = ""
            THEN [success |-> FALSE, error |-> <<"Client secret is required">>]
    ELSE [success |-> TRUE]

\* l.69-94: what getAppOnlyToken returns for the n-th answer of the endpoint, read
\* at Date.now() = t
TokenResult(a, n, t) ==
    IF a.type = "throw" THEN TokenFailure(a.error)
    ELSE IF ~a.ok \/ a.error # Null
            THEN TokenFailure(IF a.error # Null THEN a.error
                              ELSE "HTTP " \o ToString(a.status))
    ELSE [success |-> TRUE,
          token |-> [accessToken |-> "token-" \o ToString(n), tokenType |-> "bearer",
                     expiresIn |-> a.expiresIn, scope |-> "*",
                     expiresAt |-> t + a.expiresIn]]

StoreTokenOrNothing(token, outcome) ==
    IF outcome.success THEN outcome.token ELSE NoToken

\* l.135-140: this.token after getAppOnlyToken returned
StoreToken(token, outcome) == IF outcome.success THEN outcome.token ELSE token

\* l.135-141: what getAccessToken returns after getAppOnlyToken returned
AccessTokenOf(outcome) == IF outcome.success THEN outcome.token.accessToken ELSE Null

ClearedKeepingToken(m) == m

\* clearToken
Cleared(m) == [m EXCEPT !.token = NoToken]

\* the calls of getAccessToken that wait for the endpoint
Waiting == {k \in DOMAIN ops : ops[k].op = "getAccessToken" /\ ops[k].fetch = "sent"
                                    /\ ops[k].returned = "pending"}

\* the requests sent to the endpoint so far
TokenRequests ==
    Cardinality({k \in DOMAIN ops : ops[k].op = "getAccessToken" /\ ops[k].fetch = "sent"})

\* a call of getAccessToken as the log keeps it: when it was made, the token it
\* found, whether it called getAppOnlyToken ("no": it did not; "skipped": it did
\* and no request was sent; "sent": a request was sent), what getAppOnlyToken
\* returned, what the call returned, and this.token before and after its return
AccessTokenCall(at, fetch, outcome, returned, before, then) ==
    [op |-> "getAccessToken", at |-> at, found |-> manager.token, fetch |-> fetch,
     result |-> outcome, returned |-> returned, before |-> before, after |-> then]

AppOnlyInit ==
    /\ RedditIdle
    /\ LlmIdle
    /\ clock = 0
    /\ \E clientId \in {"", "client-id"}, clientSecret \in {"", "client-secret"} :
          manager = [token |-> NoToken, clientId |-> clientId,
                     clientSecret |-> clientSecret]
    /\ ops = <<>>
    /\ configFile = NoFile
    /\ ServersIdle

\* time passes
Tick ==
    /\ clock < MaxClock * Minute
    /\ clock' = clock + Minute
    /\ UNCHANGED <<redditVars, llmVars, serverVars, configFile, manager, ops>>

\* l.128-133 and l.44-67: getAccessToken up to its return or to the request
GetAccessToken ==
    /\ Len(ops) < MaxOps
    /\ LET missing == MissingCredential(manager.clientId, manager.clientSecret)
       IN  IF manager.token # NoToken /\ ~isAppOnlyTokenExpired(manager.token, clock)
              THEN /\ ops' = Append(ops, AccessTokenCall(clock, "no", Null,
                                        manager.token.accessToken, manager.token,
                                        manager.token))
                   /\ UNCHANGED manager
           ELSE IF ~missing.success
              THEN /\ ops' = Append(ops, AccessTokenCall(clock, "skipped", missing,
                                        AccessTokenOf(missing), manager.token,
                                        StoreToken(manager.token, missing)))
                   /\ manager' = [manager EXCEPT !.token = StoreToken(@, missing)]
           ELSE /\ ops' = Append(ops, AccessTokenCall(clock, "sent", Null, "pending",
                                     NoToken, NoToken))
                /\ UNCHANGED manager
    /\ UNCHANGED <<redditVars, llmVars, serverVars, configFile, clock>>

\* l.69-94 and l.135-141: fetch settles and getAccessToken goes on to its return
GetAccessTokenResume ==
    \E k \in Waiting, a \in TokenAnswers :
        LET outcome == TokenResult(a, TokenRequests, clock)
        IN  /\ manager' = [manager EXCEPT !.token = StoreToken(@, outcome)]
            /\ ops' = [ops EXCEPT ![k] =
                        [@ EXCEPT !.result = outcome,
                                  !.returned = AccessTokenOf(outcome),
                                  !.before = manager.token,
                                  !.after = StoreToken(manager.token, outcome)]]
            /\ UNCHANGED <<redditVars, llmVars, serverVars, configFile, clock>>

\* clearToken(): waiting tells whether a call of getAccessToken waits meanwhile
ClearToken ==
    /\ Len(ops) < MaxOps
    /\ manager' = Cleared(manager)
    /\ ops' = Append(ops, [op |-> "clearToken", at |-> clock,
                           waiting |-> Waiting # {}])
    /\ UNCHANGED <<redditVars, llmVars, serverVars, configFile, clock>>

\* getCurrentToken()
GetCurrentToken ==
    /\ Len(ops) < MaxOps
    /\ ops' = Append(ops, [op |-> "getCurrentToken", at |-> clock,
                           returned |-> manager.token])
    /\ UNCHANGED <<redditVars, llmVars, serverVars, configFile, clock, manager>>

AppOnlyNext ==
    \/ Tick
    \/ GetAccessToken
    \/ GetAccessTokenResume
    \/ ClearToken
    \/ GetCurrentToken

AppOnlySpec == AppOnlyInit /\ [][AppOnlyNext]_vars

\* ---------------------------------------------------------------- claims

\* the calls of getAccessToken made so far
AccessTokenCalls == {k \in DOMAIN ops : ops[k].op = "getAccessToken"}

\* no token, or one within five minutes of its expiry at time t
StaleAt(token, t) == token = NoToken \/ t >= token.expiresAt - 5 * 60

\* the call got a new token from the endpoint
GotToken(c) == c.fetch = "sent" /\ c.returned # "pending" /\ c.result.success

\* C24: a call of getAccessToken asks for a token when none is cached or the
\* cached one is stale (now >= expiresAt - 5 minutes), and when that succeeds the
\* new token is the cached one and the call returns its access token; while the
\* cached token is not stale (now < expiresAt - 5 minutes) the call returns the
\* cached access token and asks for nothing.
C24_TokenRequestedWhenStale ==
    \A k \in AccessTokenCalls :
        LET c == ops[k]
        IN  /\ StaleAt(c.found, c.at) => c.fetch \in {"skipped", "sent"}
            /\ ~StaleAt(c.found, c.at) =>
                  /\ c.fetch = "no"
                  /\ c.returned = c.found.accessToken
                  /\ c.after = c.found
            /\ GotToken(c) =>
                  /\ c.after = c.result.token
                  /\ c.returned = c.result.token.accessToken

\* a first call gets a token, a second one takes it from the cache, and a third
\* one, made at the minute the token turns stale, gets another
C24_Witness ==
    /\ Len(ops) = 3
    /\ AccessTokenCalls = {1, 2, 3}
    /\ ops[1].found = NoToken /\ GotToken(ops[1])
    /\ ops[2].fetch = "no" /\ ops[2].returned = ops[1].result.token.accessToken
    /\ ops[3].found = ops[1].result.token
    /\ ops[3].at = ops[3].found.expiresAt - 5 * 60
    /\ GotToken(ops[3])
    /\ manager.token = ops[3].result.token
    /\ manager.token # ops[1].result.token

\* the calls of clearToken made while no call of getAccessToken waited
ClearTokenCalls == {k \in DOMAIN ops : ops[k].op = "clearToken" /\ ~ops[k].waiting}

\* the first call of getAccessToken after the k-th call, or past the end
NextAccessTokenCall(k) ==
    IF \E j \in AccessTokenCalls : j > k
       THEN CHOOSE j \in AccessTokenCalls : j > k /\ \A i \in AccessTokenCalls : i > k => j <= i
    ELSE Len(ops) + 1

\* C25: after clearToken(), made between token fetches, with or without a cached
\* token, no token is cached, getCurrentToken() returns null until
\* getAccessToken is called again, and that call asks for a fresh token.
C25_ClearTokenForgetsToken ==
    \A k \in ClearTokenCalls :
        LET next == NextAccessTokenCall(k)
        IN  /\ next > Len(ops) => manager.token = NoToken
            /\ \A j \in (k + 1)..(next - 1) :
                  ops[j].op = "getCurrentToken" => ops[j].returned = NoToken
            /\ next <= Len(ops) =>
                  /\ ops[next].found = NoToken
                  /\ ops[next].fetch \in {"skipped", "sent"}

\* a token is cached and not stale, clearToken() is called, and the next call of
\* getAccessToken gets another token from the endpoint
C25_Witness ==
    /\ Len(ops) = 3
    /\ AccessTokenCalls = {1, 3}
    /\ ClearTokenCalls = {2}
    /\ GotToken(ops[1])
    /\ ~StaleAt(ops[1].after, ops[2].at)
    /\ ~StaleAt(ops[1].after, ops[3].at)
    /\ GotToken(ops[3])
    /\ ops[3].returned # ops[1].returned

\* the call asked for a token and got none
GotNoToken(c) == c.fetch # "no" /\ c.returned # "pending" /\ ~c.result.success

\* C26: when getAppOnlyToken fails (a missing credential, an error response, a
\* network error) getAccessToken returns null, this.token is what it was, and the
\* next call of getAccessToken, finding the token as the failed call left it,
\* asks for a token again.
C26_FailureIsNotCached ==
    \A k \in AccessTokenCalls :
        LET c == ops[k]
            next == NextAccessTokenCall(k)
        IN  GotNoToken(c) =>
              /\ c.returned = Null
              /\ c.after = c.before
              /\ (next <= Len(ops) /\ c.before = c.found /\ ops[next].found = c.after)
                     => ops[next].fetch \in {"skipped", "sent"}

\* a token is cached and turns stale, the request for a new one is answered with
\* an error, the stale token stays, and the next call sends a request again
C26_Witness ==
    /\ Len(ops) = 3
    /\ AccessTokenCalls = {1, 2, 3}
    /\ GotToken(ops[1])
    /\ ops[2].found = ops[1].after
    /\ ops[2].fetch = "sent" /\ GotNoToken(ops[2])
    /\ ops[2].returned = Null
    /\ ops[2].after = ops[1].after
    /\ ops[3].found = ops[2].after
    /\ ops[3].fetch = "sent"

\* the calls of clearToken, made while a call of getAccessToken waits or not
AnyClearTokenCalls == {k \in DOMAIN ops : ops[k].op = "clearToken"}

\* a call of getAccessToken that started after the k-th call has returned
LaterCallReturned(k) ==
    \E i \in AccessTokenCalls : i > k /\ ops[i].returned # "pending"

\* C35: in any interleaving of getAccessToken() and clearToken(), clearToken() while
\* a token request is in flight included, after clearToken() has returned
\* getCurrentToken() is null until a getAccessToken() that started after it returns.
C35_ClearedUntilLaterCallReturns ==
    \A k \in AnyClearTokenCalls : ~LaterCallReturned(k) => manager.token = NoToken

\* ===================== src/config.ts, src/reddit-auth.ts and the auth commands
\* The credential store is the config file.  Each command runs to its end before
\* the next one starts; ops keeps the last call, with the file as it found and
\* left it.

\* hasBrowserAuth: thirtyDays = 30 * 24 * 60 * 60 * 1000, in seconds
ThirtyDays == 2592000

\* the file holds JSON.stringify(config), or something JSON.parse throws on
Stored(config) == [file |-> "json", config |-> config]
InvalidFile == [file |-> "invalid"]

\* loadConfig() returns null
NoConfig == [null |-> TRUE]

saveConfigMerging(f, config) ==
    IF f.file # "json" THEN Stored(config)
    ELSE Stored([k \in DOMAIN f.config \cup DOMAIN config |->
                    IF k \in DOMAIN config THEN config[k] ELSE f.config[k]])

\* saveConfig(config) on the file f: the file after it
saveConfig(f, config) == Stored(config)

\* loadConfig() on the file f
loadConfig(f) == IF f.file = "json" THEN f.config ELSE NoConfig

\* clearConfig() on the file f, unlinkSync doing its work or throwing: the file
\* after it and what it returns
clearConfig(f, unlinked) ==
    IF f = NoFile THEN [file |-> f, returned |-> FALSE]
    ELSE IF unlinked THEN [file |-> NoFile, returned |-> TRUE]
    ELSE [file |-> f, returned |-> FALSE]

\* config.field is a number and truthy
HasNumber(config, field) == field \in DOMAIN config /\ config[field] # 0

\* config.field is a string and truthy
HasString(config, field) == field \in DOMAIN config /\ config[field] # ""

\* hasBrowserAuth(config) at Date.now() = now
hasBrowserAuth(config, now) ==
    IF config = NoConfig \/ config.authType # "browser" THEN FALSE
    ELSE IF "cookies" \notin DOMAIN config \/ Len(config.cookies) = 0 THEN FALSE
    ELSE IF HasNumber(config, "cookiesUpdatedAt") /\ now - config.cookiesUpdatedAt > ThirtyDays
            THEN FALSE
    ELSE TRUE

\* hasOAuthAuth(config)
hasOAuthAuth(config) ==
    IF config = NoConfig \/ config.authType # "oauth" THEN FALSE
    ELSE HasString(config, "accessToken") /\ HasString(config, "refreshToken")

\* cookies.map((c) => `${c.name}=${c.value}`).join('; ')
RECURSIVE CookiePairs(_)
CookiePairs(cookies) ==
    IF cookies = <<>> THEN ""
    ELSE Head(cookies).name \o "=" \o Head(cookies).value
         \o (IF Tail(cookies) = <<>> THEN "" ELSE "; " \o CookiePairs(Tail(cookies)))

\* getCookiesHeader(config) at Date.now() = now
getCookiesHeader(config, now) ==
    IF ~hasBrowserAuth(config, now) THEN Null ELSE CookiePairs(config.cookies)

EssentialNames ==
    {"reddit_session", "token_v2", "edgebucket", "loid", "session_tracker", "csv"}

\* filterEssentialCookies(cookies)
filterEssentialCookies(cookies) == SelectSeq(cookies, LAMBDA c : c.name \in EssentialNames)

\* isTokenExpired(tokens) at Date.now() = now
isTokenExpired(tokens, now) == now >= tokens.expiresAt - 5 * 60

NotLoggedIn ==
    [success |-> TRUE, loggedIn |-> FALSE, authType |-> "none", tokenValid |-> FALSE]

\* authStatus() with the file f at Date.now() = now
authStatus(f, now) ==
    LET config == loadConfig(f)
    IN  IF config = NoConfig THEN NotLoggedIn
        ELSE IF hasBrowserAuth(config, now)
                THEN [success |-> TRUE, loggedIn |-> TRUE, authType |-> "browser",
                      tokenValid |-> TRUE, username |-> config.username]
        ELSE IF hasOAuthAuth(config)
                THEN [success |-> TRUE, loggedIn |-> TRUE, authType |-> "oauth",
                      tokenValid |-> now < config.expiresAt - 5 * 60,
                      expiresAt |-> config.expiresAt]
        ELSE NotLoggedIn

\* what authorizeReddit resolves to: the tokens of the exchange, or a failure of
\* the callback server or of the exchange
AuthorizeOutcomes ==
    {[success |-> TRUE, accessToken |-> "access-1", refreshToken |-> "refresh-1",
      expiresIn |-> 360],
     [success |-> FALSE, error |-> "Authorization denied: access_denied"],
     [success |-> FALSE, error |-> "State mismatch - possible CSRF attack"],
     [success |-> FALSE, error |-> "Authorization timeout - no response received"],
     [success |-> FALSE, error |-> "Token exchange failed: invalid_grant"]}

\* what browserLogin resolves to
BrowserOutcomes ==
    {[success |-> TRUE, username |-> "testuser",
      cookies |-> <<[name |-> "reddit_session", value |-> "abc123"],
                    [name |-> "theme", value |-> "dark"],
                    [name |-> "token_v2", value |-> "xyz789"]>>],
     [success |-> TRUE, username |-> "unknown",
      cookies |-> <<[name |-> "token_v2", value |-> "xyz789"]>>],
     [success |-> FALSE, error |-> "No browser found"],
     [success |-> FALSE,
      error |-> "Login timeout - no login detected within the time limit."]}

\* what the token endpoint answers to a refresh: a token with or without a new
\* refresh token, an error, or fetch throws
RefreshAnswers ==
    {[type |-> "response", ok |-> TRUE, status |-> 200, error |-> Null,
      accessToken |-> "access-2", refreshToken |-> "refresh-2", expiresIn |-> 360],
     [type |-> "response", ok |-> TRUE, status |-> 200, error |-> Null,
      accessToken |-> "access-2", refreshToken |-> Null, expiresIn |-> 360],
     [type |-> "response", ok |-> FALSE, status |-> 400, error |-> "invalid_grant"],
     [type |-> "throw", error |-> "fetch failed"]}

\* refreshAccessToken(refreshToken, ...) when the endpoint answers a at
\* Date.now() = now
refreshAccessToken(refreshToken, a, now) ==
    IF a.type = "throw"
       THEN [success |-> FALSE, error |-> "Token refresh failed: " \o a.error]
    ELSE IF ~a.ok \/ a.error # Null
       THEN [success |-> FALSE, error |-> "Token refresh failed: " \o a.error]
    ELSE [success |-> TRUE,
          tokens |-> [accessToken |-> a.accessToken,
                      refreshToken |-> IF a.refreshToken # Null THEN a.refreshToken
                                       ELSE refreshToken,
                      expiresAt |-> now + a.expiresIn]]

\* getValidAccessToken(tokens, ...) when the endpoint would answer a
getValidAccessToken(tokens, a, now) ==
    IF ~isTokenExpired(tokens, now) THEN [success |-> TRUE, tokens |-> tokens]
    ELSE refreshAccessToken(tokens.refreshToken, a, now)

\* the tokens of a stored OAuth credential
TokensOf(config) ==
    [accessToken |-> config.accessToken, refreshToken |-> config.refreshToken,
     expiresAt |-> config.expiresAt]

\* the config authLogin saves
OAuthConfig(tokens, now) ==
    [authType |-> "oauth", accessToken |-> tokens.accessToken,
     refreshToken |-> tokens.refreshToken, expiresAt |-> now + tokens.expiresIn]

\* the config authBrowserLogin saves
BrowserConfig(outcome, now) ==
    [authType |-> "browser", cookies |-> filterEssentialCookies(outcome.cookies),
     username |-> outcome.username, cookiesUpdatedAt |-> now]

\* a browser credential that says nothing of when its cookies were updated
UnstampedFile ==
    Stored([authType |-> "browser", username |-> "testuser",
            cookies |-> <<[name |-> "reddit_session", value |-> "abc123"]>>])

\* the call is the last one made
Logged(call) == <<call>>

AuthInit ==
    /\ RedditIdle
    /\ LlmIdle
    /\ ManagerIdle
    /\ clock = Minute
    /\ ops = <<>>
    /\ configFile \in {NoFile, InvalidFile, UnstampedFile}
    /\ ServersIdle

\* time passes: a minute, or thirty days; MaxClock minutes and thirty days at most
Pass ==
    \E d \in {Minute, ThirtyDays} :
        /\ clock + d < 2 * ThirtyDays
        /\ (clock + d) % ThirtyDays <= MaxClock * Minute
        /\ clock' = clock + d
        /\ UNCHANGED <<redditVars, llmVars, serverVars, manager, ops, configFile>>

\* authLogin(clientId, clientSecret)
AuthLogin ==
    \E clientId \in {"", "client-id"}, clientSecret \in {"", "client-secret"},
       outcome \in AuthorizeOutcomes :
        LET authorized == clientId # "" /\ clientSecret # ""
            returned ==
                IF clientId = ""
                   THEN [success |-> FALSE, error |-> "Reddit client ID is required"]
                ELSE IF clientSecret = ""
                   THEN [success |-> FALSE, error |-> "Reddit client secret is required"]
                ELSE IF ~outcome.success THEN outcome
                ELSE [success |-> TRUE, message |-> "Successfully logged in to Reddit!"]
            saved == returned.success
        IN  /\ configFile' = IF saved THEN saveConfig(configFile, OAuthConfig(outcome, clock))
                             ELSE configFile
            /\ ops' = Logged([op |-> "authLogin", at |-> clock, before |-> configFile,
                              after |-> configFile', authorized |-> authorized,
                              outcome |-> IF authorized THEN outcome ELSE NoConfig,
                              saved |-> saved, returned |-> returned])
            /\ UNCHANGED <<redditVars, llmVars, serverVars, manager, clock>>

\* authBrowserLogin()
AuthBrowserLogin ==
    \E outcome \in BrowserOutcomes :
        LET returned ==
                IF ~outcome.success THEN outcome
                ELSE [success |-> TRUE,
                      message |-> "Successfully logged in as " \o outcome.username \o "!"]
            saved == outcome.success
        IN  /\ configFile' = IF saved THEN saveConfig(configFile, BrowserConfig(outcome, clock))
                             ELSE configFile
            /\ ops' = Logged([op |-> "authBrowserLogin", at |-> clock,
                              before |-> configFile, after |-> configFile',
                              outcome |-> outcome, saved |-> saved,
                              returned |-> returned])
            /\ UNCHANGED <<redditVars, llmVars, serverVars, manager, clock>>

\* authLogout()
AuthLogout ==
    \E unlinked \in BOOLEAN :
        LET cleared == clearConfig(configFile, unlinked)
        IN  /\ configFile' = cleared.file
            /\ ops' = Logged([op |-> "authLogout", at |-> clock, before |-> configFile,
                              after |-> configFile',
                              returned |->
                                  [success |-> TRUE,
                                   message |-> IF cleared.returned
                                                  THEN "Successfully logged out from Reddit."
                                               ELSE "You were not logged in."]])
            /\ UNCHANGED <<redditVars, llmVars, serverVars, manager, clock>>

\* authStatus()
AuthStatus ==
    /\ ops' = Logged([op |-> "authStatus", at |-> clock, before |-> configFile,
                      after |-> configFile, returned |-> authStatus(configFile, clock)])
    /\ UNCHANGED <<redditVars, llmVars, serverVars, manager, clock, configFile>>

\* getCookiesHeader(loadConfig())
GetCookiesHeader ==
    /\ ops' = Logged([op |-> "getCookiesHeader", at |-> clock, before |-> configFile,
                      after |-> configFile,
                      returned |-> getCookiesHeader(loadConfig(configFile), clock)])
    /\ UNCHANGED <<redditVars, llmVars, serverVars, manager, clock, configFile>>

\* getValidAccessToken(tokens, ...) with the tokens of the stored credential
GetValidAccessToken ==
    /\ hasOAuthAuth(loadConfig(configFile))
    /\ \E a \in RefreshAnswers :
          LET tokens == TokensOf(loadConfig(configFile))
              stale == isTokenExpired(tokens, clock)
          IN  /\ ops' = Logged([op |-> "getValidAccessToken", at |-> clock,
                                before |-> configFile, after |-> configFile,
                                tokens |-> tokens,
                                request |-> IF stale THEN a ELSE NoConfig,
                                returned |-> getValidAccessToken(tokens, a, clock)])
              /\ UNCHANGED <<redditVars, llmVars, serverVars, manager, clock, configFile>>

AuthNext ==
    \/ Pass
    \/ AuthLogin
    \/ AuthBrowserLogin
    \/ AuthLogout
    \/ AuthStatus
    \/ GetCookiesHeader
    \/ GetValidAccessToken

AuthSpec == AuthInit /\ [][AuthNext]_vars

\* ---------------------------------------------------------------- claims

\* the last call, if it was one of op
LastCall(op) == ops # <<>> /\ ops[1].op = op

\* the tokens the stored credential holds, if it is an OAuth one
StoredTokens ==
    IF hasOAuthAuth(loadConfig(configFile)) THEN TokensOf(loadConfig(configFile))
    ELSE NoConfig

\* C27: getValidAccessToken returns the stored tokens and sends nothing while
\* they are not stale (now < expiresAt - 5 minutes); when they are stale it sends
\* the refresh token, and on success the new tokens (the new access token and
\* expiresAt, with the new refresh token or the old one when the answer has none)
\* are what it returns and what the credential store then holds; when the
\* refresh is rejected it returns a failure.
C27_RefreshedTokensArePersisted ==
    LastCall("getValidAccessToken") =>
        LET c == ops[1]
            a == c.request
        IN  IF c.at < c.tokens.expiresAt - 5 * 60
               THEN /\ a = NoConfig
                    /\ c.returned = [success |-> TRUE, tokens |-> c.tokens]
                    /\ StoredTokens = c.tokens
            ELSE /\ a # NoConfig
                 /\ IF a.type = "response" /\ a.ok
                       THEN /\ c.returned.success
                            /\ c.returned.tokens.accessToken = a.accessToken
                            /\ c.returned.tokens.expiresAt = c.at + a.expiresIn
                            /\ c.returned.tokens.refreshToken =
                                  IF a.refreshToken # Null THEN a.refreshToken
                                  ELSE c.tokens.refreshToken
                            /\ StoredTokens = c.returned.tokens
                    ELSE ~c.returned.success

\* the stored credential is a browser one with cookies, updated at most thirty
\* days before t
FreshBrowserCredential(f, t) ==
    /\ f.file = "json"
    /\ f.config.authType = "browser"
    /\ "cookies" \in DOMAIN f.config /\ f.config.cookies # <<>>
    /\ "cookiesUpdatedAt" \in DOMAIN f.config
    /\ t - f.config.cookiesUpdatedAt <= 30 * 24 * 60 * 60

\* the cookies as name=value pairs joined by "; ", for one cookie or two
PairsOf(cookies) ==
    IF Len(cookies) = 1 THEN cookies[1].name \o "=" \o cookies[1].value
    ELSE cookies[1].name \o "=" \o cookies[1].value \o "; "
         \o cookies[2].name \o "=" \o cookies[2].value

\* C28: hasBrowserAuth is true only for a browser credential with cookies that
\* were updated at most 30 days ago; when it is false getCookiesHeader returns
\* null and authStatus reports no browser login, and when it is true
\* getCookiesHeader returns the cookies as name=value pairs joined by "; ".
C28_BrowserCredentialFreshThirtyDays ==
    (LastCall("getCookiesHeader") \/ LastCall("authStatus")) =>
        LET c == ops[1]
            usable == hasBrowserAuth(loadConfig(c.before), c.at)
        IN  /\ usable => FreshBrowserCredential(c.before, c.at)
            /\ c.op = "getCookiesHeader" =>
                  IF usable THEN c.returned = PairsOf(c.before.config.cookies)
                  ELSE c.returned = Null
            /\ c.op = "authStatus" /\ ~usable => c.returned.authType # "browser"

\* C29: after authLogout, whatever logins came before, the credential store is
\* empty and authStatus reports loggedIn = false; authLogout returns success,
\* saying that it logged out when a credential was stored and that nobody was
\* logged in when none was.
C29_LogoutLeavesNoCredential ==
    LastCall("authLogout") =>
        LET c == ops[1]
        IN  /\ configFile = NoFile
            /\ ~authStatus(configFile, clock).loggedIn
            /\ c.returned.success
            /\ c.returned.message = IF c.before # NoFile
                                       THEN "Successfully logged out from Reddit."
                                    ELSE "You were not logged in."

OAuthFields == {"accessToken", "refreshToken", "expiresAt"}
BrowserFields == {"cookies", "username", "cookiesUpdatedAt"}

\* the essential cookies among those of the browser, in their order
Essential(cookies) ==
    SelectSeq(cookies, LAMBDA c : c.name \in {"reddit_session", "token_v2", "edgebucket",
                                             "loid", "session_tracker", "csv"})

\* C30: a login that fails saves nothing and leaves the credential store as it
\* was; a login that succeeds leaves in the store exactly the new credential;
\* the store never holds an OAuth and a browser credential together.
C30_LoginReplacesOrLeavesStore ==
    /\ configFile.file = "json" =>
          \/ DOMAIN configFile.config \cap OAuthFields = {}
          \/ DOMAIN configFile.config \cap BrowserFields = {}
    /\ (LastCall("authLogin") \/ LastCall("authBrowserLogin")) =>
          LET c == ops[1]
          IN  /\ c.after = configFile
              /\ ~c.returned.success => ~c.saved /\ c.after = c.before
              /\ c.op = "authLogin" /\ (~c.authorized \/ ~c.outcome.success)
                    => ~c.returned.success
              /\ c.op = "authBrowserLogin" /\ ~c.outcome.success => ~c.returned.success
              /\ c.op = "authLogin" /\ c.returned.success =>
                    /\ c.saved
                    /\ c.after = [file |-> "json",
                                  config |-> [authType |-> "oauth",
                                              accessToken |-> c.outcome.accessToken,
                                              refreshToken |-> c.outcome.refreshToken,
                                              expiresAt |-> c.at + c.outcome.expiresIn]]
              /\ c.op = "authBrowserLogin" /\ c.returned.success =>
                    /\ c.saved
                    /\ c.after = [file |-> "json",
                                  config |-> [authType |-> "browser",
                                              cookies |-> Essential(c.outcome.cookies),
                                              username |-> c.outcome.username,
                                              cookiesUpdatedAt |-> c.at]]

\* an OAuth credential is stored, authBrowserLogin succeeds, and the store holds
\* the browser credential alone
C30_Witness ==
    /\ LastCall("authBrowserLogin")
    /\ ops[1].before.file = "json"
    /\ ops[1].before.config.authType = "oauth"
    /\ ops[1].returned.success
    /\ configFile.config.authType = "browser"
    /\ DOMAIN configFile.config \cap OAuthFields = {}

\* =========================================== src/reddit-auth.ts: startCallbackServer
\* One call startCallbackServer(expectedState) with the default timeoutMs.  The
\* handlers of the server and of the timer run to completion, one at a time; time is
\* counted in minutes.  An exception that leaves the request listener is uncaught and
\* ends the process.

\* timeoutMs = 300000, in minutes
TimeoutMinutes == 5

\* the state authorizeReddit generated
ExpectedStates == {"state-1"}

\* the request targets the server may be sent: the callback path or another one, each
\* with any of the three parameters absent, empty or set, and "//", for which
\* new URL(req.url, base) throws (a scheme-relative URL without a host)
CallbackRequests ==
    [path : {"/callback", "/favicon.ico"},
     error : {Null, "", "access_denied"},
     code : {Null, "", "code-1", "code-2"},
     state : {Null, "state-1", "state-2"}]
        \cup {[path |-> "//", error |-> Null, code |-> Null, state |-> Null]}

\* new URL(req.url || '', `http://localhost:8080`) returns
UrlParses(req) == req.path # "//"

Authorized(code) == [success |-> TRUE, code |-> code]
CallbackFailure(message) == [success |-> FALSE, error |-> message]
AuthorizationTimeout == CallbackFailure("Authorization timeout - no response received")
StateMismatch == CallbackFailure("State mismatch - possible CSRF attack")

\* the state check left out
StateAlwaysMatches(state, expectedState) == TRUE

\* state !== expectedState, negated
StateMatches(state, expectedState) == state = expectedState

\* what the request listener passes to resolve for a request to /callback
CallbackResult(req, expectedState) ==
    IF ~Falsy(req.error) THEN CallbackFailure("Authorization denied: " \o req.error)
    ELSE IF Falsy(req.code) THEN CallbackFailure("No authorization code received")
    ELSE IF ~StateMatches(req.state, expectedState) THEN StateMismatch
    ELSE Authorized(req.code)

\* !resolved
Unresolved(server) == ~server.resolved

\* clearTimeout(timeout)
ClearTimeout(timer) == IF timer = "armed" THEN "cleared" ELSE timer

\* resolved = true; resolve(value): the call is logged, the first one settles the promise
Resolve(server, value, event) ==
    [server EXCEPT !.resolved = TRUE,
                   !.resolveCalls = Append(@, value),
                   !.decidedBy = IF server.resolveCalls = <<>> THEN event ELSE @,
                   !.last = event]

\* the promise startCallbackServer returned has settled, and with what
Settled == callbackServer.resolveCalls # <<>>
Promise == callbackServer.resolveCalls[1]

CallbackEvent(kind, req, status) ==
    [kind |-> kind, request |-> req, late |-> callbackServer.resolved, status |-> status]

CallbackInit ==
    /\ RedditIdle
    /\ LlmIdle
    /\ ManagerIdle
    /\ clock = 0
    /\ ops = <<>>
    /\ configFile = NoFile
    /\ ApiServerIdle
    /\ \E expectedState \in ExpectedStates :
          callbackServer = [expectedState |-> expectedState, elapsed |-> 0,
                            resolved |-> FALSE, timer |-> "armed", server |-> "starting",
                            resolveCalls |-> <<>>, decidedBy |-> NoEvent,
                            last |-> NoEvent]

\* a minute passes; the timer is due at timeoutMs
CallbackTick ==
    /\ callbackServer.server # "crashed"
    /\ callbackServer.elapsed < TimeoutMinutes
    /\ callbackServer' = [callbackServer EXCEPT !.elapsed = @ + 1]
    /\ UNCHANGED <<redditVars, llmVars, authVars, apiServer>>

\* l.312-316: the port is bound
CallbackListening ==
    /\ callbackServer.server = "starting"
    /\ callbackServer' = [callbackServer EXCEPT !.server = "listening"]
    /\ UNCHANGED <<redditVars, llmVars, authVars, apiServer>>

\* l.205-289: the request listener; a due timer runs before a request is read
CallbackRequest ==
    \E req \in CallbackRequests :
        /\ callbackServer.server \in {"listening", "closing"}
        /\ ~(callbackServer.timer = "armed" /\ callbackServer.elapsed >= TimeoutMinutes)
        /\ callbackServer' =
              IF ~Unresolved(callbackServer)
              THEN [callbackServer EXCEPT !.last = CallbackEvent("request", req, 0)]
              ELSE IF ~UrlParses(req)
              THEN [callbackServer EXCEPT !.server = "crashed", !.timer = "dead",
                                          !.last = CallbackEvent("request", req, 0)]
              ELSE IF req.path # "/callback"
              THEN [callbackServer EXCEPT !.last = CallbackEvent("request", req, 404)]
              ELSE [Resolve(callbackServer,
                            CallbackResult(req, callbackServer.expectedState),
                            CallbackEvent("request", req, 200))
                        EXCEPT !.server = "closing"]
        /\ UNCHANGED <<redditVars, llmVars, authVars, apiServer>>

\* l.292-298: the timer fires
CallbackTimeout ==
    /\ callbackServer.timer = "armed"
    /\ callbackServer.elapsed >= TimeoutMinutes
    /\ callbackServer' =
          IF Unresolved(callbackServer)
          THEN [Resolve(callbackServer, AuthorizationTimeout,
                        CallbackEvent("timeout", NoRequest, 0))
                    EXCEPT !.timer = "fired",
                           !.server = IF @ = "listening" THEN "closing" ELSE @]
          ELSE [callbackServer EXCEPT !.timer = "fired",
                                      !.last = CallbackEvent("timeout", NoRequest, 0)]
    /\ UNCHANGED <<redditVars, llmVars, authVars, apiServer>>

\* l.300-302: the server has closed
CallbackClose ==
    /\ callbackServer.server = "closing"
    /\ callbackServer' = [callbackServer EXCEPT !.server = "closed",
                                                !.timer = ClearTimeout(@)]
    /\ UNCHANGED <<redditVars, llmVars, authVars, apiServer>>

\* l.304-310: the server reports an error (the port is in use, a socket fails)
CallbackError ==
    /\ callbackServer.server \in {"starting", "listening"}
    /\ callbackServer' =
          IF Unresolved(callbackServer)
          THEN [Resolve(callbackServer, CallbackFailure("Server error: listen EADDRINUSE"),
                        CallbackEvent("error", NoRequest, 0))
                    EXCEPT !.timer = ClearTimeout(@),
                           !.server = IF @ = "starting" THEN "failed" ELSE @]
          ELSE [callbackServer EXCEPT !.last = CallbackEvent("error", NoRequest, 0),
                                      !.server = IF @ = "starting" THEN "failed" ELSE @]
    /\ UNCHANGED <<redditVars, llmVars, authVars, apiServer>>

CallbackNext ==
    \/ CallbackTick
    \/ CallbackListening
    \/ CallbackRequest
    \/ CallbackTimeout
    \/ CallbackClose
    \/ CallbackError

CallbackSpec == CallbackInit /\ [][CallbackNext]_vars

\* time passes and a due timer fires, as long as the process lives
CallbackFairSpec ==
    CallbackSpec /\ WF_vars(CallbackTick) /\ WF_vars(CallbackTimeout)

\* ------------------------------------------------- claims on the callback server

\* the request that settled the promise
DecidingRequest == callbackServer.decidedBy.request
DecidedByRequest == Settled /\ callbackServer.decidedBy.kind = "request"
\* the latest event was a callback with a state other than the expected one
ForeignCallback(event) ==
    /\ event.kind = "request"
    /\ event.request.path = "/callback"
    /\ event.request.state # callbackServer.expectedState

\* C31 as stated: success and a code only for a request to /callback with no error
\* parameter, a non-empty code and the expected state; a callback with another state
\* resolves the failure 'State mismatch' and its code is never returned.
C31_StateMismatchForEveryForeignCallback ==
    /\ (Settled /\ Promise.success) =>
          /\ DecidedByRequest
          /\ DecidingRequest.path = "/callback"
          /\ DecidingRequest.error = Null
          /\ DecidingRequest.code \notin {Null, ""}
          /\ DecidingRequest.state = callbackServer.expectedState
          /\ Promise.code = DecidingRequest.code
    /\ ForeignCallback(callbackServer.last) => (Settled /\ Promise = StateMismatch)

\* C31, amended: success and a code only for a request to /callback whose error
\* parameter is absent or empty, with a non-empty code and the expected state, and the
\* code is that request's; a callback with another state that settles the promise
\* settles it with a failure, which is 'State mismatch' when the callback carries no
\* error and a non-empty code; one that arrives after the promise settled changes
\* nothing.
C31_CodeOnlyForExpectedState ==
    /\ (Settled /\ Promise.success) =>
          /\ DecidedByRequest
          /\ DecidingRequest.path = "/callback"
          /\ DecidingRequest.error \in {Null, ""}
          /\ DecidingRequest.code \notin {Null, ""}
          /\ DecidingRequest.state = callbackServer.expectedState
          /\ Promise.code = DecidingRequest.code
    /\ (DecidedByRequest /\ ForeignCallback(callbackServer.decidedBy)) =>
          /\ ~Promise.success
          /\ (DecidingRequest.error \in {Null, ""} /\ DecidingRequest.code \notin {Null, ""})
                => Promise = StateMismatch
    /\ (ForeignCallback(callbackServer.last) /\ callbackServer.last.late) =>
          /\ Settled
          /\ callbackServer.decidedBy # callbackServer.last
          /\ Len(callbackServer.resolveCalls) = 1

\* a callback with a foreign state and a code was refused, and one more arrived late
C31_Witness ==
    /\ Settled
    /\ Promise = StateMismatch
    /\ DecidingRequest.code = "code-2"
    /\ DecidingRequest.state = "state-2"
    /\ ForeignCallback(callbackServer.last)
    /\ callbackServer.last.late

\* C32: the promise settles exactly once under every interleaving of requests, the
\* timer and server errors: resolve is called at most once and a settled promise keeps
\* its value, a request to another path than /callback never settles it, and it does
\* settle in the end, with 'Authorization timeout' when no callback settled it.
C32_SettlesOnceAndInTime ==
    /\ [](Len(callbackServer.resolveCalls) <= 1)
    /\ [][Settled => Promise' = Promise]_vars
    /\ [](DecidedByRequest => DecidingRequest.path = "/callback")
    /\ <>Settled
    /\ []((Settled /\ ~DecidedByRequest) => Promise = AuthorizationTimeout)

\* ================================== the web service: createServer, POST /api/analyze
\* One POST /api/analyze request, cut at the awaits of its handler.  A request body is
\* what express.json() leaves in req.body: a parsed object, nothing (req.body is
\* undefined: the request has no JSON body), or a syntax error passed to the error
\* middleware.  The values of a body are the values of the JSON parser above; their
\* numbers are counted in halves here (v = 5 is 2.5), strings are sequences of
\* characters.

StringValue(s) == [kind |-> "string", v |-> Chars(s)]
\* the number n / 2
HalvesValue(n) == [kind |-> "number", v |-> n]
NullValue == [kind |-> "null", v |-> <<>>]

\* [a-zA-Z0-9_]
NameChars ==
    {LOWER[k] : k \in DOMAIN LOWER} \cup {UPPER[k] : k \in DOMAIN UPPER}
        \cup Digits \cup {"_"}

\* SUBREDDIT_REGEX = /^[a-zA-Z0-9_]{2,21}$/
isValidSubredditName(name) ==
    /\ Len(name) >= 2
    /\ Len(name) <= 21
    /\ \A k \in DOMAIN name : name[k] \in NameChars

\* the longest run of [a-zA-Z0-9_] a text starts with
RECURSIVE LeadingName(_)
LeadingName(str) ==
    IF str # <<>> /\ Head(str) \in NameChars
       THEN <<Head(str)>> \o LeadingName(Tail(str))
       ELSE <<>>

\* str.startsWith(prefix) without regard to case, as a pattern with the i flag has it
StartsWithI(str, prefix) == StartsWith(ToLowerCase(str), Chars(prefix))

\* (?:prefix)? at the head of a pattern
SkipOptional(str, prefix) ==
    IF StartsWithI(str, prefix) THEN SliceFrom(str, Len(prefix)) ELSE str

\* /^(?:https?:\/\/)?(?:www\.)?(?:old\.)?reddit\.com\/r\/([a-zA-Z0-9_]+)/i: the
\* captured name, <<>> without a match
UrlMatch(trimmed) ==
    LET afterScheme == SkipOptional(SkipOptional(trimmed, "https://"), "http://")
        afterHost == SkipOptional(SkipOptional(afterScheme, "www."), "old.")
    IN  IF StartsWithI(afterHost, "reddit.com/r/")
           THEN LeadingName(SliceFrom(afterHost, 13))
           ELSE <<>>

\* /^r\/([a-zA-Z0-9_]+)$/i: the captured name, <<>> without a match
RPrefixMatch(trimmed) ==
    IF StartsWithI(trimmed, "r/") /\ LeadingName(SliceFrom(trimmed, 2)) = SliceFrom(trimmed, 2)
       THEN SliceFrom(trimmed, 2)
       ELSE <<>>

SubredditParsed(name) == [success |-> TRUE, subreddit |-> name]
SubredditRejected(message) == [success |-> FALSE, error |-> message]

\* src/subreddit.ts parseSubreddit; the messages without the name they quote
parseSubreddit(input) ==
    LET trimmed == Trim(input)
    IN  IF input = <<>> \/ trimmed = <<>>
           THEN SubredditRejected("Subreddit name is required")
        ELSE IF UrlMatch(trimmed) # <<>>
           THEN (IF isValidSubredditName(UrlMatch(trimmed))
                    THEN SubredditParsed(UrlMatch(trimmed))
                    ELSE SubredditRejected("Invalid subreddit name in URL"))
        ELSE IF RPrefixMatch(trimmed) # <<>>
           THEN (IF isValidSubredditName(RPrefixMatch(trimmed))
                    THEN SubredditParsed(RPrefixMatch(trimmed))
                    ELSE SubredditRejected("Invalid subreddit name"))
        ELSE IF isValidSubredditName(trimmed) THEN SubredditParsed(trimmed)
        ELSE IF Contains(trimmed, Chars("reddit.com")) \/ StartsWith(trimmed, Chars("http"))
           THEN SubredditRejected("Could not extract subreddit from URL")
        ELSE SubredditRejected("Invalid subreddit name")

\* Number(value): NaN, or a number in halves
NotANumber == [nan |-> TRUE, v |-> 0]
Halves(n) == [nan |-> FALSE, v |-> n]
NumberOf(value) ==
    CASE value.kind = "number" -> Halves(value.v)
      [] value.kind = "null" -> Halves(0)
      [] value.kind = "boolean" -> (IF value.v THEN Halves(2) ELSE Halves(0))
      [] value.kind = "string" ->
            (LET trimmed == Trim(value.v)
             IN  IF trimmed = <<>> THEN Halves(0)
                 ELSE IF \A k \in DOMAIN trimmed : trimmed[k] \in Digits
                         THEN Halves(2 * ParseDigits(trimmed, 0))
                 ELSE NotANumber)
      [] OTHER -> NotANumber

\* Number(limit) || 50, in halves
NumberOrFifty(value) ==
    IF NumberOf(value).nan \/ NumberOf(value).v = 0 THEN 100 ELSE NumberOf(value).v

\* Math.min(Math.max(1, Number(limit) || 50), 500), in halves
parsedLimit(value) == Min(Max(2, NumberOrFifty(value)), 1000)

\* const { period = '30d', limit = 50 } = req.body: the default stands in for undefined
OrDefault(value, default) == IF value.kind = "undefined" THEN default ELSE value

\* the subreddit inputs of a request
SubredditInputs ==
    {Undefined, NullValue, HalvesValue(10), StringValue(""), StringValue("  "),
     StringValue("ab"), StringValue(" ab "), StringValue("a"), StringValue("a b"),
     StringValue("r/ab"), StringValue("R/a"), StringValue("abcdefghijklmnopqrstuv"),
     StringValue("https://www.reddit.com/r/ab/top"), StringValue("reddit.com/r/a"),
     StringValue("http://example.com")}

PeriodInputs ==
    {Undefined, NullValue, HalvesValue(60), StringValue("7d"), StringValue("30d"),
     StringValue("90d"), StringValue("180d"), StringValue("1d"), StringValue("30D")}

LimitInputs ==
    {Undefined, NullValue, HalvesValue(-10), HalvesValue(0), HalvesValue(2), HalvesValue(5),
     HalvesValue(1000), HalvesValue(2000), StringValue("10"), StringValue("abc"),
     [kind |-> "boolean", v |-> TRUE]}

RequestBodies ==
    [kind : {"object"}, subreddit : SubredditInputs, period : PeriodInputs,
     limit : LimitInputs]
        \cup {[kind |-> "undefined"], [kind |-> "malformed"]}

\* process.env.OPENAI_API_KEY: unset, empty or set
EnvKeys == {Null, "", "sk-test"}

ApiAnswer(status, message) == [status |-> status, error |-> message]

\* l.67-109: what the handler answers before it fetches; status 0: it goes on to fetch
Validation(body, envKey) ==
    LET input == body.subreddit
        asked == OrDefault(body.period, StringValue("30d"))
    IN  IF ~Truthy(input) \/ input.kind # "string"
           THEN ApiAnswer(400, "Subreddit name is required")
        ELSE IF ~parseSubreddit(input.v).success
           THEN ApiAnswer(400, parseSubreddit(input.v).error)
        ELSE IF ~(asked.kind = "string" /\ asked.v \in Periods)
           THEN ApiAnswer(400, "Invalid period. Must be one of: 7d, 30d, 90d, 180d")
        ELSE IF Falsy(envKey)
           THEN ApiAnswer(500, "OpenAI API key is not configured on the server")
        ELSE ApiAnswer(0, "")

\* the arguments of fetchRedditData
FetchCall(body) ==
    [subreddit |-> parseSubreddit(body.subreddit.v).subreddit,
     period |-> OrDefault(body.period, StringValue("30d")).v,
     limit |-> parsedLimit(OrDefault(body.limit, HalvesValue(100)))]

ApiInit ==
    /\ RedditIdle
    /\ LlmIdle
    /\ ManagerIdle
    /\ clock = 0
    /\ ops = <<>>
    /\ configFile = NoFile
    /\ CallbackServerIdle
    /\ \E body \in RequestBodies, envKey \in EnvKeys :
          apiServer = [body |-> body, envKey |-> envKey, pc |-> "received",
                       fetchCalls |-> <<>>, analyzeCalls |-> 0, status |-> 0,
                       error |-> ""]

Answered(status, message) ==
    [apiServer EXCEPT !.pc = "answered", !.status = status, !.error = message]

\* l.50 and l.162-168: express.json() rejects the body, the error middleware answers
\* l.65-115: the handler up to its answer or to the call of fetchRedditData
ApiAnalyze ==
    /\ apiServer.pc = "received"
    /\ apiServer' =
          IF apiServer.body.kind = "malformed"
             THEN Answered(500, "Internal server error")
          ELSE IF apiServer.body.kind = "undefined"
             THEN Answered(500, "Cannot destructure property 'subreddit' of 'req.body' as it is undefined.")
          ELSE IF Validation(apiServer.body, apiServer.envKey).status # 0
             THEN Answered(Validation(apiServer.body, apiServer.envKey).status,
                           Validation(apiServer.body, apiServer.envKey).error)
          ELSE [apiServer EXCEPT !.pc = "fetching",
                                 !.fetchCalls = Append(@, FetchCall(apiServer.body))]
    /\ UNCHANGED <<redditVars, llmVars, authVars, callbackServer>>

\* l.112-132: fetchRedditData returned; the handler answers or calls analyzeWithLLM
ApiFetched ==
    /\ apiServer.pc = "fetching"
    /\ \E success \in BOOLEAN :
          apiServer' =
              IF success
                 THEN [apiServer EXCEPT !.pc = "analyzing", !.analyzeCalls = @ + 1]
                 ELSE Answered(400, "Subreddit not found.")
    /\ UNCHANGED <<redditVars, llmVars, authVars, callbackServer>>

\* l.132-159: analyzeWithLLM returned or threw; the handler answers
ApiAnalyzed ==
    /\ apiServer.pc = "analyzing"
    /\ \E outcome \in {"success", "failure", "throws"} :
          apiServer' =
              CASE outcome = "success" -> Answered(200, "")
                [] outcome = "failure" -> Answered(500, "Failed to analyze data")
                [] outcome = "throws" -> Answered(500, "Connection error.")
    /\ UNCHANGED <<redditVars, llmVars, authVars, callbackServer>>

ApiNext ==
    \/ ApiAnalyze
    \/ ApiFetched
    \/ ApiAnalyzed

ApiSpec == ApiInit /\ [][ApiNext]_vars

\* ------------------------------------------------------ claims on POST /api/analyze

ApiAnswered == apiServer.pc = "answered"
NeverFetched == apiServer.fetchCalls = <<>>
ValidPeriods == {Chars("7d"), Chars("30d"), Chars("90d"), Chars("180d")}

\* the request may be fetched for: a non-empty string that parseSubreddit accepts, a
\* period of the four or none, and a key in the environment
Fetchable ==
    /\ apiServer.body.kind = "object"
    /\ apiServer.body.subreddit.kind = "string"
    /\ apiServer.body.subreddit.v # <<>>
    /\ parseSubreddit(apiServer.body.subreddit.v).success
    /\ \/ apiServer.body.period.kind = "undefined"
       \/ apiServer.body.period.kind = "string" /\ apiServer.body.period.v \in ValidPeriods
    /\ apiServer.envKey \notin {Null, ""}

\* fetchRedditData is called at most once, for a request that may be fetched for, with
\* a limit inside 1..500, the period asked for or 30d, and the limit 50 when none is
\* asked for; analyzeWithLLM is called only after a fetch
FetchIsGuarded ==
    /\ Len(apiServer.fetchCalls) <= 1
    /\ ~NeverFetched =>
          /\ Fetchable
          /\ apiServer.fetchCalls[1].limit >= 2
          /\ apiServer.fetchCalls[1].limit <= 1000
          /\ apiServer.fetchCalls[1].period \in ValidPeriods
          /\ apiServer.body.period.kind = "undefined" =>
                apiServer.fetchCalls[1].period = Chars("30d")
          /\ apiServer.body.period.kind = "string" =>
                apiServer.fetchCalls[1].period = apiServer.body.period.v
          /\ apiServer.body.limit.kind = "undefined" => apiServer.fetchCalls[1].limit = 100
    /\ apiServer.analyzeCalls <= Len(apiServer.fetchCalls)
    /\ apiServer.pc = "fetching" => apiServer.analyzeCalls = 0

\* C33: fetchRedditData is called only for a request that may be fetched for, and
\* then with a limit inside 1..500, period defaulting to 30d and limit to 50; every
\* other request is answered without a fetch, 400 for its invalid input or 500 for the
\* missing API key; analyzeWithLLM is called only after a successful fetch.
C33_FetchOnlyForValidRequests ==
    /\ FetchIsGuarded
    /\ (apiServer.pc # "received" /\ ~Fetchable) =>
          /\ ApiAnswered
          /\ NeverFetched
          /\ \/ apiServer.status = 400
             \/ apiServer.status = 500 /\ apiServer.envKey \in {Null, ""}

====
